---- MODULE Spec2Model ----
(***************************************************************************)
(* Model of the batch generation orchestrator of the admin page            *)
(* (src/src/app/admin/page.tsx), of the generate route                     *)
(* (src/src/app/api/generate/route.ts) and of the author reconciliation    *)
(* helpers of that route.                                                  *)
(*                                                                         *)
(* JavaScript is run-to-completion: a handler runs without interruption up *)
(* to its next `await`.  Every action below is one such synchronous block, *)
(* or one program-ordered piece of it (runPc = "spawn" marks a block that  *)
(* is still running: nothing else is enabled until it ends).               *)
(*                                                                         *)
(* Strings of the user interface are abstracted to ASCII tags, one tag per *)
(* distinct message the source can produce.                                *)
(***************************************************************************)
EXTENDS Integers, Sequences, FiniteSets, TLC

(***************************************************************************)
(* Bounds of the model.                                                    *)
(***************************************************************************)
MaxRows == 3
MaxJobs == 3
RunJobs == 5
MaxAuthors == 2

\* Math.min(3, ...) of runBulkGeneration; the concurrency select offers 1..3.
PoolLimit == 3

Undefined == "undefined"
\* setBulkCsvError(null) and setBulkSummary(null)
NoCsvError == <<>>
NoSummary == <<>>

Min(a, b) == IF a <= b THEN a ELSE b
Max(a, b) == IF a >= b THEN a ELSE b

Range(s) == {s[i] : i \in 1..Len(s)}

SeqsUpTo(S, n) == UNION {[1..k -> S] : k \in 0..n}

(***************************************************************************)
(* Batch input.  A CSV text is modelled after tokenisation: the body rows, *)
(* each row the values findValue returns for the columns the orchestrator  *)
(* reads (already trimmed).  The header line is implied, so a text of zero *)
(* rows has fewer than two lines.                                          *)
(***************************************************************************)
HttpUrl == "https://host/paper.pdf"
RepoUrl == "https://github.com/o/r"
FileRef == "file:a.pdf"
EmptyFileRef == "file:"
PdfName == "a.pdf"

Row(t, u, id, f) == [sourceType |-> t, sourceUrl |-> u, projectId |-> id, pdfFileName |-> f]

\* String.prototype.toLowerCase on the sourceType values of the model.
ToLowerCase(s) ==
  CASE s = "PDF" -> "pdf"
    [] s = "GitHub" -> "github"
    [] s = "YouTube" -> "youtube"
    [] OTHER -> s

\* String.prototype.startsWith('file:') on the sourceUrl values of the model.
StartsWithFile(u) == u \in {FileRef, EmptyFileRef}

\* rawSourceUrl.slice(5).trim() for a url that starts with 'file:'.
SliceFile(u) == IF u = FileRef THEN PdfName ELSE ""

ValidSourceTypes == {"pdf", "github", "youtube"}

NewJob(row, sourceType) ==
  [sourceType |-> sourceType,
   sourceUrl |-> row.sourceUrl,
   projectId |-> row.projectId,
   pdfFileName |-> IF row.pdfFileName = "" THEN Undefined ELSE row.pdfFileName,
   status |-> "queued",
   message |-> Undefined,
   generatedTitle |-> Undefined]

CsvError(rowNumber, kind) == [row |-> rowNumber, kind |-> kind]

\* seenProjectIds.add(projectId) happens before the source checks of the row.
MarkSeen(seen, projectId) == seen \cup {projectId}

\* One iteration of the forEach of parseBulkCsv over the body rows.
ParseRow(acc, row, index) ==
  LET rowNumber == index + 1
      sourceType == ToLowerCase(row.sourceType)
      reject(kind) == [acc EXCEPT !.errors = Append(@, CsvError(rowNumber, kind))]
  IN  IF sourceType \notin ValidSourceTypes THEN reject("sourceType")
      ELSE IF row.projectId = "" THEN reject("projectId")
      ELSE IF row.projectId \in acc.seen THEN reject("duplicate")
      ELSE LET seen == MarkSeen(acc.seen, row.projectId) IN
           IF sourceType # "pdf" /\ row.sourceUrl = ""
             THEN [reject("sourceUrl") EXCEPT !.seen = seen]
           ELSE IF sourceType = "pdf" /\ row.sourceUrl = "" /\ row.pdfFileName = ""
             THEN [reject("pdfSource") EXCEPT !.seen = seen]
           ELSE [acc EXCEPT !.seen = seen, !.jobs = Append(@, NewJob(row, sourceType))]

RECURSIVE ParseRows(_, _, _)
ParseRows(acc, rows, index) ==
  IF index > Len(rows) THEN acc
  ELSE ParseRows(ParseRow(acc, rows[index], index), rows, index + 1)

parseBulkCsv(rows) ==
  IF Len(rows) < 1
    THEN [jobs |-> << >>, errors |-> << CsvError(0, "tooShort") >>]
    ELSE LET acc == ParseRows([jobs |-> << >>, errors |-> << >>, seen |-> {}], rows, 1)
         IN  [jobs |-> acc.jobs, errors |-> acc.errors]

(***************************************************************************)
(* The generate route seen from its caller: the response of one POST, as a *)
(* function of the request and of what the collaborators do (env).         *)
(***************************************************************************)
Request(sourceType, sourceUrl, projectId) ==
  [sourceType |-> sourceType, sourceUrl |-> sourceUrl, projectId |-> projectId]

LoadOutcomes == {"buffer", "null", "throws"}
ExtractOutcomes == {"text", "empty", "throws"}
GeneratorOutcomes == {"throws", "noJson", "unrepairable", "json", "jsonBadCarousel"}
PersistOutcomes == {"ok", "throws"}

Envs == [apiKey : BOOLEAN, load : LoadOutcomes, extract : ExtractOutcomes,
         gen : GeneratorOutcomes, persist : PersistOutcomes]

JsonResponse(status, error, details, message, title) ==
  [status |-> status, kind |-> "json", error |-> error, details |-> details,
   message |-> message, title |-> title]

ErrorResponse(status, error, details) ==
  JsonResponse(status, error, details, Undefined, Undefined)

NoResponse == [status |-> 0, kind |-> "none", error |-> Undefined, details |-> Undefined,
               message |-> Undefined, title |-> Undefined]

\* What the outer catch of POST (lines 1071-1080) answers to a thrown error.
CaughtResponse(details) == ErrorResponse(500, "generation error", details)

\* text.match(/\{[\s\S]*\}/) on the generator's text.
HasJsonMatch(gen) == gen \in {"unrepairable", "json", "jsonBadCarousel"}

\* JSON.parse of the repaired match throws: the catch of lines 921-945 runs.
ParseThrows(gen) == gen = "unrepairable"

FallbackTitle(projectId) == projectId \o " Project"

\* responseData.title = generatedData.title || `${projectId} Project`
ResponseTitle(p) == IF p.fallback THEN FallbackTitle(p.req.projectId) ELSE "Generated Title"

\* The record saveMarkdownFile writes to <projectId>.md.
Document(p) == [title |-> ResponseTitle(p), type |-> p.req.sourceType, fallback |-> p.fallback]

NewPipeline(req, env) ==
  [pc |-> "start", req |-> req, env |-> env, pdfText |-> "", fallback |-> FALSE,
   calls |-> << >>, saved |-> FALSE, saveError |-> Undefined, resp |-> NoResponse]

IdlePipeline ==
  [NewPipeline(Request("github", "", ""),
               [apiKey |-> FALSE, load |-> "null", extract |-> "empty",
                gen |-> "throws", persist |-> "throws"]) EXCEPT !.pc = "idle"]

Respond(p, resp) == [p EXCEPT !.pc = "done", !.resp = resp]

Called(p, collaborator) == [p EXCEPT !.calls = Append(@, collaborator)]

\* lines 864-872: the answer to an empty pdfText.
ExtractionFailed(p) == Respond(p, ErrorResponse(422, "pdf text extraction failed", Undefined))

\* lines 812-852: the checks before the source is read.
StepStart(p) ==
  IF ~p.env.apiKey THEN Respond(p, ErrorResponse(500, "GEMINI_API_KEY missing", Undefined))
  ELSE IF p.req.sourceUrl = "" \/ p.req.projectId = ""
    THEN Respond(p, ErrorResponse(400, "sourceUrl and projectId required", Undefined))
  ELSE IF p.req.sourceType = "pdf" THEN [p EXCEPT !.pc = "load"]
  ELSE [p EXCEPT !.pc = "generate"]

\* A load whose failure is logged and the request carries on with no text.
StepLoad_Continue(p) ==
  LET q == Called(p, "load")
  IN  IF p.env.load = "buffer" THEN [q EXCEPT !.pc = "extract"] ELSE [q EXCEPT !.pc = "generate"]

\* lines 855-857: await loadPdfBufferFromSource(sourceUrl), inside the try.
StepLoad(p) ==
  LET q == Called(p, "load")
  IN  IF p.env.load = "buffer" THEN [q EXCEPT !.pc = "extract"] ELSE ExtractionFailed(q)

\* lines 858-879: await extractPdfText(dataBuffer), then the empty-text check.
StepExtract(p) ==
  LET q == Called(p, "extract")
  IN  IF p.env.extract = "text"
        THEN [q EXCEPT !.pc = "generate", !.pdfText = "pdf text"]
        ELSE ExtractionFailed(q)

\* lines 886-889: await textModel.generateContent(prompt).
StepGenerate(p) ==
  LET q == Called(p, "generate")
  IN  IF p.env.gen = "throws" THEN Respond(q, CaughtResponse("generator unavailable"))
      ELSE [q EXCEPT !.pc = "parse"]

\* lines 891-1052: match, repair, parse or fall back, post-process.
StepParse(p) ==
  IF ~HasJsonMatch(p.env.gen) THEN Respond(p, CaughtResponse("no JSON in AI response"))
  ELSE IF ParseThrows(p.env.gen) THEN [p EXCEPT !.pc = "persist", !.fallback = TRUE]
  ELSE IF p.env.gen = "jsonBadCarousel"
    THEN Respond(p, CaughtResponse("carousel.map is not a function"))
  ELSE [p EXCEPT !.pc = "persist"]

\* lines 1054-1070: await saveMarkdownFile inside its own try, then the answer.
StepPersist(p) ==
  LET q == Called(p, "persist")
      r == IF p.env.persist = "ok"
             THEN [q EXCEPT !.saved = TRUE]
             ELSE [q EXCEPT !.saveError = "EACCES: permission denied"]
  IN  Respond(r, JsonResponse(200, Undefined, Undefined, "page generated", ResponseTitle(p)))

PipelineStep(p) ==
  CASE p.pc = "start" -> StepStart(p)
    [] p.pc = "load" -> StepLoad(p)
    [] p.pc = "extract" -> StepExtract(p)
    [] p.pc = "generate" -> StepGenerate(p)
    [] p.pc = "parse" -> StepParse(p)
    [] p.pc = "persist" -> StepPersist(p)
    [] OTHER -> p

RECURSIVE RunPipeline(_)
RunPipeline(p) == IF p.pc \in {"done", "idle"} THEN p ELSE RunPipeline(PipelineStep(p))

\* One whole POST /api/generate.
POST(req, env) == RunPipeline(NewPipeline(req, env))

(***************************************************************************)
(* Author rosters of the generate route.  A name is the sequence of its    *)
(* characters, so that trimming, lowercasing and whitespace collapsing are *)
(* computed on it.                                                         *)
(***************************************************************************)
IsSpace(c) == c = " "

UpperLetters ==
  <<"A", "B", "C", "D", "E", "F", "G", "H", "I", "J", "K", "L", "M",
    "N", "O", "P", "Q", "R", "S", "T", "U", "V", "W", "X", "Y", "Z">>

LowerLetters ==
  <<"a", "b", "c", "d", "e", "f", "g", "h", "i", "j", "k", "l", "m",
    "n", "o", "p", "q", "r", "s", "t", "u", "v", "w", "x", "y", "z">>

\* String.prototype.toLowerCase on one character
LowerChar(c) ==
  IF \E i \in DOMAIN UpperLetters : UpperLetters[i] = c
    THEN LowerLetters[CHOOSE i \in DOMAIN UpperLetters : UpperLetters[i] = c]
    ELSE c

RECURSIVE TrimStart(_)
TrimStart(name) ==
  IF name # << >> /\ IsSpace(Head(name)) THEN TrimStart(Tail(name)) ELSE name

RECURSIVE TrimEnd(_)
TrimEnd(name) ==
  IF name # << >> /\ IsSpace(name[Len(name)])
    THEN TrimEnd(SubSeq(name, 1, Len(name) - 1))
    ELSE name

\* String.prototype.trim
Trim(name) == TrimEnd(TrimStart(name))

\* String.prototype.toLowerCase on a name
NameToLowerCase(name) == [i \in 1..Len(name) |-> LowerChar(name[i])]

\* The smallest and the greatest of a set of positions.
Least(positions) == CHOOSE i \in positions : \A j \in positions : i <= j

Greatest(positions) == CHOOSE i \in positions : \A j \in positions : i >= j

\* The k-th smallest of a set of positions.
NthOf(positions, k) ==
  CHOOSE i \in positions : Cardinality({j \in positions : j < i}) = k - 1

\* replace(/\s+/g, ' '): a space that another space follows is dropped.
CollapseWhitespace(name) ==
  LET marked == [i \in DOMAIN name |->
                   [char |-> name[i],
                    dropped |-> IsSpace(name[i]) /\ i < Len(name) /\ IsSpace(name[i + 1])]]
      IsKept(mark) == ~mark.dropped
      kept == SelectSeq(marked, IsKept)
  IN  SubSeq([k \in DOMAIN kept |-> kept[k].char], 1, Len(kept))

normalizeAuthorKey(name) == CollapseWhitespace(NameToLowerCase(Trim(name)))

Author(name, url, affiliation, equalContribution) ==
  [name |-> name, url |-> url, affiliation |-> affiliation,
   equalContribution |-> equalContribution]

\* `x || y` on an optional string
OrElse(x, y) == IF x \in {Undefined, ""} THEN y ELSE x

\* typeof x === 'boolean'
IsBoolean(x) == x \in {"true", "false"}

\* A field merge that lets the incoming candidate's set fields win.
mergeAuthor_IncomingWins(base, incoming) ==
  [base EXCEPT
     !.name = IF incoming.name = << >> THEN base.name ELSE incoming.name,
     !.url = OrElse(incoming.url, base.url),
     !.affiliation = OrElse(incoming.affiliation, base.affiliation),
     !.equalContribution = IF IsBoolean(incoming.equalContribution)
                             THEN incoming.equalContribution
                             ELSE base.equalContribution]

mergeAuthor(base, incoming) ==
  [base EXCEPT
     !.name = IF base.name = << >> THEN incoming.name ELSE base.name,
     !.url = OrElse(base.url, incoming.url),
     !.affiliation = OrElse(base.affiliation, incoming.affiliation),
     !.equalContribution = IF IsBoolean(base.equalContribution)
                             THEN base.equalContribution
                             ELSE incoming.equalContribution]

\* base.map(trim the name).filter(name is not empty)
TrimmedNonEmpty(base) ==
  SelectSeq([i \in 1..Len(base) |-> [base[i] EXCEPT !.name = Trim(@)]],
            LAMBDA author : author.name # << >>)

\* The index indexByKey.set leaves for a key after the first loop: the last one.
LastIndexOf(merged, key) ==
  LET places == {i \in 1..Len(merged) : normalizeAuthorKey(merged[i].name) = key}
  IN  CHOOSE i \in places : \A j \in places : j <= i

\* The first loop of mergeAuthorSets: a later set() of a key overwrites.
IndexByKey(merged) ==
  [key \in {normalizeAuthorKey(merged[i].name) : i \in 1..Len(merged)} |->
     LastIndexOf(merged, key)]

\* The loop body without the allowNewNames test of lines 457-459.
MergeIncoming_AlwaysPush(acc, author, allowNewNames) ==
  LET name == Trim(author.name)
      key == normalizeAuthorKey(name)
      normalizedIncoming == [author EXCEPT !.name = name]
  IN  IF name = << >> THEN acc
      ELSE IF key \in DOMAIN acc.indexByKey
        THEN [acc EXCEPT !.merged[acc.indexByKey[key]] = mergeAuthor(@, normalizedIncoming)]
      ELSE [merged |-> Append(acc.merged, normalizedIncoming),
            indexByKey |-> [k \in DOMAIN acc.indexByKey \cup {key} |->
                              IF k = key THEN Len(acc.merged) + 1 ELSE acc.indexByKey[k]]]

\* One iteration of the loop over incoming.
MergeIncoming(acc, author, allowNewNames) ==
  LET name == Trim(author.name)
      key == normalizeAuthorKey(name)
      normalizedIncoming == [author EXCEPT !.name = name]
  IN  IF name = << >> THEN acc
      ELSE IF key \in DOMAIN acc.indexByKey
        THEN [acc EXCEPT !.merged[acc.indexByKey[key]] = mergeAuthor(@, normalizedIncoming)]
      ELSE IF ~allowNewNames THEN acc
      ELSE [merged |-> Append(acc.merged, normalizedIncoming),
            indexByKey |-> [k \in DOMAIN acc.indexByKey \cup {key} |->
                              IF k = key THEN Len(acc.merged) + 1 ELSE acc.indexByKey[k]]]

RECURSIVE MergeLoop(_, _, _)
MergeLoop(acc, incoming, allowNewNames) ==
  IF incoming = << >> THEN acc
  ELSE MergeLoop(MergeIncoming(acc, Head(incoming), allowNewNames), Tail(incoming),
                 allowNewNames)

mergeAuthorSets(base, incoming, allowNewNames) ==
  LET merged == TrimmedNonEmpty(base)
  IN  MergeLoop([merged |-> merged, indexByKey |-> IndexByKey(merged)],
                incoming, allowNewNames).merged

\* uniqueNonEmpty: trimmed values, the first of each lowercased value kept.
RECURSIVE UniqueFrom(_, _, _)
UniqueFrom(values, seen, result) ==
  IF values = << >> THEN result
  ELSE LET trimmed == Trim(Head(values))
           key == NameToLowerCase(trimmed)
       IN  IF trimmed = << >> \/ key \in seen
             THEN UniqueFrom(Tail(values), seen, result)
             ELSE UniqueFrom(Tail(values), seen \cup {key}, Append(result, trimmed))

uniqueNonEmpty(values) == UniqueFrom(values, {}, << >>)

\* value.split(',')
RECURSIVE SplitFrom(_, _, _)
SplitFrom(text, current, parts) ==
  IF text = << >> THEN Append(parts, current)
  ELSE IF Head(text) = "," THEN SplitFrom(Tail(text), << >>, Append(parts, current))
  ELSE SplitFrom(Tail(text), Append(current, Head(text)), parts)

SplitCommas(text) == SplitFrom(text, << >>, << >>)

parseAuthorNamesFromTextInput(value) ==
  LET names == [i \in 1..Len(SplitCommas(value)) |-> Trim(SplitCommas(value)[i])]
  IN  uniqueNonEmpty(SelectSeq(names, LAMBDA name : name # << >>))

toAuthorObjectsFromNames(names) ==
  LET unique == uniqueNonEmpty(names)
  IN  [i \in 1..Len(unique) |-> Author(unique[i], Undefined, Undefined, Undefined)]

\* value.trim() on an affiliation or a url.
TrimString(value) ==
  CASE value = " " -> ""
    [] value = " MIT " -> "MIT"
    [] OTHER -> value

\* A field kept by the parsers: a string that is not blank.
KeptString(value) ==
  IF value = Undefined \/ TrimString(value) = "" THEN Undefined ELSE TrimString(value)

\* An element of authorList or of generatedData.authors that is a plain string.
StringItem(name) == [kind |-> "string", name |-> name, url |-> Undefined,
                     affiliation |-> Undefined, equalContribution |-> Undefined]

\* An element that is an object; a field that is absent or of another type is Undefined.
ObjectItem(name, url, affiliation, equalContribution) ==
  [kind |-> "object", name |-> name, url |-> url, affiliation |-> affiliation,
   equalContribution |-> equalContribution]

\* A request field that should hold an array: Array.isArray and the elements.
ArrayOf(items) == [isArray |-> TRUE, items |-> items]
NotAnArray == [isArray |-> FALSE, items |-> << >>]

\* A request field that should hold a string: typeof and the characters.
StringOf(text) == [isString |-> TRUE, text |-> text]
NotAString == [isString |-> FALSE, text |-> << >>]

\* The object branch of parseManualAuthorList and normalizeGeneratedAuthors.
ParsedAuthor(item) ==
  Author(Trim(item.name), KeptString(item.url), KeptString(item.affiliation),
         IF IsBoolean(item.equalContribution) THEN item.equalContribution ELSE Undefined)

RECURSIVE ParseItems(_, _, _)
ParseItems(items, acceptStrings, normalized) ==
  IF items = << >> THEN normalized
  ELSE LET item == Head(items)
           rest == Tail(items)
       IN  IF item.kind = "string"
             THEN IF acceptStrings /\ Trim(item.name) # << >>
                    THEN ParseItems(rest, acceptStrings,
                                    Append(normalized,
                                           Author(Trim(item.name), Undefined, Undefined,
                                                  Undefined)))
                    ELSE ParseItems(rest, acceptStrings, normalized)
           ELSE IF Trim(item.name) = << >> THEN ParseItems(rest, acceptStrings, normalized)
           ELSE ParseItems(rest, acceptStrings, Append(normalized, ParsedAuthor(item)))

parseManualAuthorList(authorList) ==
  IF ~authorList.isArray THEN << >>
  ELSE mergeAuthorSets(<< >>, ParseItems(authorList.items, FALSE, << >>), TRUE)

normalizeGeneratedAuthors(authors) ==
  IF ~authors.isArray THEN << >>
  ELSE mergeAuthorSets(<< >>, ParseItems(authors.items, TRUE, << >>), TRUE)

\* Boolean(author.affiliation)
HasAffiliation(author) == author.affiliation \notin {Undefined, ""}

\* A backfill that also replaces an affiliation the base entry already has.
applyAffiliationByPosition_Overwrite(baseAuthors, manualAuthors) ==
  IF Len(baseAuthors) = 0 \/ Len(manualAuthors) = 0 THEN baseAuthors
  ELSE IF Len(baseAuthors) # Len(manualAuthors) THEN baseAuthors
  ELSE IF ~\E i \in 1..Len(manualAuthors) : HasAffiliation(manualAuthors[i]) THEN baseAuthors
  ELSE [i \in 1..Len(baseAuthors) |->
          IF HasAffiliation(manualAuthors[i])
            THEN [baseAuthors[i] EXCEPT !.affiliation = manualAuthors[i].affiliation]
          ELSE baseAuthors[i]]

applyAffiliationByPosition(baseAuthors, manualAuthors) ==
  IF Len(baseAuthors) = 0 \/ Len(manualAuthors) = 0 THEN baseAuthors
  ELSE IF Len(baseAuthors) # Len(manualAuthors) THEN baseAuthors
  ELSE IF ~\E i \in 1..Len(manualAuthors) : HasAffiliation(manualAuthors[i]) THEN baseAuthors
  ELSE [i \in 1..Len(baseAuthors) |->
          IF HasAffiliation(baseAuthors[i]) THEN baseAuthors[i]
          ELSE IF HasAffiliation(manualAuthors[i])
            THEN [baseAuthors[i] EXCEPT !.affiliation = manualAuthors[i].affiliation]
          ELSE baseAuthors[i]]

NamesOf(roster) == [i \in 1..Len(roster) |-> roster[i].name]

PlaceholderAuthor == Author(<<"A", "u", "t", "h", "o", "r">>, Undefined, Undefined, Undefined)

\* A choice that prefers the generator's own list to the enriched roster.
FinalAuthors_GeneratedFirst(enrichedWithGenerated, generatedAuthors) ==
  IF Len(generatedAuthors) > 0 THEN generatedAuthors
  ELSE IF Len(enrichedWithGenerated) > 0 THEN enrichedWithGenerated
  ELSE << PlaceholderAuthor >>

\* const finalAuthors = ... (lines 967-973)
FinalAuthors(enrichedWithGenerated, generatedAuthors) ==
  IF Len(enrichedWithGenerated) > 0 THEN enrichedWithGenerated
  ELSE IF Len(generatedAuthors) > 0 THEN generatedAuthors
  ELSE << PlaceholderAuthor >>

\* The author roster of POST: lines 798-806 before the source is read, lines
\* 947-973 after the generator's answer is parsed.  extractedPdfAuthorNames
\* is what extractAuthorsFromPdfText returned (empty unless sourceType is pdf).
AuthorRoster(sourceType, extractedPdfAuthorNames, authors, authorList, generated) ==
  LET manualAuthorObjects == parseManualAuthorList(authorList)
      manualAuthorNames ==
        uniqueNonEmpty((IF authors.isString THEN parseAuthorNamesFromTextInput(authors.text)
                                            ELSE << >>)
                       \o NamesOf(manualAuthorObjects))
      fallbackManualAuthors ==
        mergeAuthorSets(toAuthorObjectsFromNames(manualAuthorNames), manualAuthorObjects, TRUE)
      generatedAuthors == normalizeGeneratedAuthors(generated)
      fallbackPdfAuthors == toAuthorObjectsFromNames(extractedPdfAuthorNames)
      chosen == IF sourceType = "pdf" /\ Len(fallbackPdfAuthors) > 0
                  THEN fallbackPdfAuthors
                  ELSE fallbackManualAuthors
      fallbackAuthors ==
        IF sourceType = "pdf"
          THEN applyAffiliationByPosition(mergeAuthorSets(chosen, manualAuthorObjects, FALSE),
                                          manualAuthorObjects)
          ELSE chosen
      enrichedBaseAuthors == mergeAuthorSets(fallbackAuthors, manualAuthorObjects, FALSE)
      enrichedWithGenerated == mergeAuthorSets(enrichedBaseAuthors, generatedAuthors, FALSE)
  IN  [manualAuthorObjects |-> manualAuthorObjects,
       fallbackManualAuthors |-> fallbackManualAuthors,
       fallbackPdfAuthors |-> fallbackPdfAuthors,
       generatedAuthors |-> generatedAuthors,
       base |-> chosen,
       enrichedWithGenerated |-> enrichedWithGenerated,
       finalAuthors |-> FinalAuthors(enrichedWithGenerated, generatedAuthors)]

(***************************************************************************)
(* State of the admin page (useState hooks of AdminPage), of the batch run *)
(* in progress (locals of runBulkGeneration and of its workers), and of    *)
(* the server (the request being handled and the content store).           *)
(***************************************************************************)
VARIABLES
  bulkCsvText,      \* the textarea: body rows of the CSV
  bulkJobs,         \* the job list
  bulkCsvError,     \* the error lines shown above the batch; none when null
  bulkPdfFiles,     \* names of the selected PDF files
  bulkConcurrency,  \* the concurrency select
  bulkSummary,      \* empty when null, else one [total, success, failed]
  isBulkRunning,
  isGenerating,
  view,             \* the flags as of the last render: what the handlers' closures see
  runPc,            \* "idle", "spawn" (Array.from is creating the workers), "await" (Promise.all)
  queue,            \* const queue = [...jobsToRun]
  failedOnly,       \* the argument of the runBulkGeneration in progress
  jobsToRun,        \* const jobsToRun (the fields the run reads)
  workerCount,
  successCount,
  failedCount,
  wpc,              \* per worker: "off", "resolve", "fetch", "parse", "done"
  wjob,             \* per worker: the job it holds
  wurl,             \* per worker: finalSourceUrl
  wresp,            \* per worker: the response being decoded
  pipe,             \* the POST /api/generate being handled
  store,            \* the content store: projectId -> document
  authorCall        \* a call of mergeAuthorSets: its arguments and its result

batchVars == <<bulkCsvText, bulkJobs, bulkCsvError, bulkPdfFiles, bulkConcurrency,
               bulkSummary, isBulkRunning, isGenerating, view>>
runVars == <<runPc, failedOnly, jobsToRun, queue, workerCount, successCount, failedCount,
             wpc, wjob, wurl, wresp>>
serverVars == <<pipe, store, authorCall>>
vars == <<batchVars, runVars, serverVars>>

Workers == 1..PoolLimit

JobId(i) == "p" \o ToString(i)

NoJob == [projectId |-> "", sourceType |-> "", sourceUrl |-> "", pdfFileName |-> Undefined]

\* The fields of a queued job object a worker reads.
QueuedJob(job) ==
  [projectId |-> job.projectId, sourceType |-> job.sourceType,
   sourceUrl |-> job.sourceUrl, pdfFileName |-> job.pdfFileName]

Flags == [isGenerating |-> isGenerating, isBulkRunning |-> isBulkRunning]

\* No synchronous block is in progress, and React has rendered the state the
\* last event handler left: the next user event sees the current flags.
Rendered == runPc # "spawn" /\ view = Flags

CountStatus(jobs, st) == Cardinality({i \in 1..Len(jobs) : jobs[i].status = st})

\* bulkJobs.reduce((acc, job) => { acc[job.status] += 1; return acc }, zeros)
RECURSIVE StatusCountFrom(_, _)
StatusCountFrom(acc, jobs) ==
  IF jobs = << >> THEN acc
  ELSE StatusCountFrom([acc EXCEPT ![Head(jobs).status] = @ + 1], Tail(jobs))

bulkStatusCount(jobs) ==
  StatusCountFrom([queued |-> 0, running |-> 0, success |-> 0, failed |-> 0], jobs)

bulkCompletedCount(jobs) == bulkStatusCount(jobs).success + bulkStatusCount(jobs).failed

\* Math.round(x) for x = numerator / denominator >= 0: halves round up.
MathRound(numerator, denominator) == (2 * numerator + denominator) \div (2 * denominator)

\* A percentage that is cut, not rounded.
bulkProgressPercent_Floor(jobs) ==
  IF Len(jobs) > 0 THEN (bulkCompletedCount(jobs) * 100) \div Len(jobs) ELSE 0

bulkProgressPercent(jobs) ==
  IF Len(jobs) > 0 THEN MathRound(bulkCompletedCount(jobs) * 100, Len(jobs)) ELSE 0

\* updateBulkJob: patch every job whose projectId matches.
updateBulkJob(jobs, projectId, status, message, title) ==
  [i \in 1..Len(jobs) |->
     IF jobs[i].projectId = projectId
       THEN [jobs[i] EXCEPT !.status = status, !.message = message, !.generatedTitle = title]
       ELSE jobs[i]]

\* The 'failed' patch of the catch block carries no generatedTitle.
updateBulkJobFailed(jobs, projectId, message) ==
  [i \in 1..Len(jobs) |->
     IF jobs[i].projectId = projectId
       THEN [jobs[i] EXCEPT !.status = "failed", !.message = message]
       ELSE jobs[i]]

\* A requeue that clears the message and keeps the title of the previous run.
Requeue_KeepTitle(jobs, jobIds) ==
  [i \in 1..Len(jobs) |->
     IF jobs[i].projectId \in jobIds
       THEN [jobs[i] EXCEPT !.status = "queued", !.message = Undefined]
       ELSE jobs[i]]

\* A requeue that keeps the message and the title of the previous run.
Requeue_KeepMessage(jobs, jobIds) ==
  [i \in 1..Len(jobs) |->
     IF jobs[i].projectId \in jobIds THEN [jobs[i] EXCEPT !.status = "queued"] ELSE jobs[i]]

\* setBulkJobs(prev => prev.map(...)) of runBulkGeneration.
Requeue(jobs, jobIds) ==
  [i \in 1..Len(jobs) |->
     IF jobs[i].projectId \in jobIds
       THEN [jobs[i] EXCEPT !.status = "queued", !.message = Undefined,
                            !.generatedTitle = Undefined]
       ELSE jobs[i]]

IsFailed(job) == job.status = "failed"

\* A run that leaves out the jobs that already succeeded.
JobsToRun_SkipSuccess(jobs, onlyFailed) ==
  SelectSeq(jobs, LAMBDA job : job.status # "success")

\* A retry that ignores its argument and takes every job.
JobsToRun_All(jobs, onlyFailed) == jobs

JobsToRun(jobs, onlyFailed) == IF onlyFailed THEN SelectSeq(jobs, IsFailed) ELSE jobs

\* A pool sized without the configured concurrency.
WorkerCount_IgnoreSetting(concurrency, queueLength) == Max(1, Min(PoolLimit, queueLength))

\* Math.max(1, Math.min(3, bulkConcurrency, queue.length))
WorkerCount(concurrency, queueLength) ==
  Max(1, Min(PoolLimit, Min(concurrency, queueLength)))

(***************************************************************************)
(* Handlers of the batch panel.                                            *)
(***************************************************************************)
\* The textarea's onChange (disabled while a generation runs).
EditCsvText(rows) ==
  /\ Rendered /\ ~view.isGenerating /\ ~view.isBulkRunning
  /\ bulkCsvText # rows
  /\ bulkCsvText' = rows
  /\ UNCHANGED <<bulkJobs, bulkCsvError, bulkPdfFiles, bulkConcurrency, bulkSummary,
                 isBulkRunning, isGenerating, view, runVars, serverVars>>

\* The concurrency select's onChange.
SetBulkConcurrency(n) ==
  /\ Rendered /\ ~view.isGenerating /\ ~view.isBulkRunning
  /\ bulkConcurrency # n
  /\ bulkConcurrency' = n
  /\ UNCHANGED <<bulkCsvText, bulkJobs, bulkCsvError, bulkPdfFiles, bulkSummary,
                 isBulkRunning, isGenerating, view, runVars, serverVars>>

\* handleBulkPdfFilesSelect with valid PDF files.
handleBulkPdfFilesSelect(files) ==
  /\ Rendered /\ ~view.isGenerating /\ ~view.isBulkRunning
  /\ bulkPdfFiles # files
  /\ bulkPdfFiles' = files
  /\ UNCHANGED <<bulkCsvText, bulkJobs, bulkCsvError, bulkConcurrency, bulkSummary,
                 isBulkRunning, isGenerating, view, runVars, serverVars>>

handleParseBulkCsv ==
  /\ Rendered /\ ~view.isGenerating /\ ~view.isBulkRunning
  /\ LET parsed == parseBulkCsv(bulkCsvText)
     IN  IF Len(parsed.errors) > 0
           THEN /\ bulkCsvError' = parsed.errors
                /\ bulkJobs' = << >>
           ELSE /\ bulkCsvError' = NoCsvError
                /\ bulkJobs' = parsed.jobs
  /\ bulkSummary' = NoSummary
  /\ UNCHANGED <<bulkCsvText, bulkPdfFiles, bulkConcurrency,
                 isBulkRunning, isGenerating, view, runVars, serverVars>>

\* The reset button of the panel.
ResetBulk ==
  /\ Rendered /\ ~view.isGenerating /\ ~view.isBulkRunning
  /\ bulkCsvText' = << >>
  /\ bulkJobs' = << >>
  /\ bulkPdfFiles' = {}
  /\ bulkCsvError' = NoCsvError
  /\ bulkSummary' = NoSummary
  /\ UNCHANGED <<bulkConcurrency, isBulkRunning, isGenerating, view, runVars, serverVars>>

\* React commits the pending state: later handlers close over the new flags.
Render ==
  /\ runPc # "spawn"
  /\ view # Flags
  /\ view' = Flags
  /\ UNCHANGED <<bulkCsvText, bulkJobs, bulkCsvError, bulkPdfFiles, bulkConcurrency,
                 bulkSummary, isBulkRunning, isGenerating, runVars, serverVars>>

(***************************************************************************)
(* runBulkGeneration and its workers.                                      *)
(***************************************************************************)
UploadedUrl == "/papers/a.pdf"

Ok(value) == [ok |-> TRUE, value |-> value]
Thrown(message) == [ok |-> FALSE, value |-> message]

\* resolveBulkSourceUrl: what `await resolveBulkSourceUrl(job)` can yield.
\* uploadPdfForBulk returns the uploaded URL or throws.
resolveBulkSourceUrl(job, pdfFiles) ==
  LET rawSourceUrl == job.sourceUrl
      referencedName == IF StartsWithFile(rawSourceUrl) THEN SliceFile(rawSourceUrl) ELSE ""
      fileName == IF referencedName # "" THEN referencedName
                  ELSE IF job.pdfFileName # Undefined THEN job.pdfFileName
                  ELSE ""
  IN  IF job.sourceType # "pdf" THEN {Ok(rawSourceUrl)}
      ELSE IF rawSourceUrl # "" /\ ~StartsWithFile(rawSourceUrl) THEN {Ok(rawSourceUrl)}
      ELSE IF fileName = "" THEN {Thrown("pdf source url or pdfFileName required")}
      ELSE IF fileName \notin pdfFiles THEN {Thrown("pdf file not found: " \o fileName)}
      ELSE {Ok(UploadedUrl), Thrown("pdf upload failed")}

\* Answers that do not come from the route: a gateway's HTML error page and a
\* 200 whose body is not a JSON object.
GatewayResponse == [NoResponse EXCEPT !.status = 502, !.kind = "html"]
PlainResponse == [NoResponse EXCEPT !.status = 200, !.kind = "text"]

\* What `await fetch('/api/generate', ...)` can yield: a response, or a throw.
Fetched(resp) == [ok |-> TRUE, resp |-> resp, message |-> ""]
FetchThrew(message) == [ok |-> FALSE, resp |-> NoResponse, message |-> message]

\* The batch panel's server has its API key configured.
BatchEnvs == {env \in Envs : env.apiKey}

\* The fields of a response parseApiResponse and the worker read.
ClientView(resp) == [resp EXCEPT !.details = Undefined]

\* The request bodies the batch panel can send.
BatchRequests ==
  {Request(t, u, JobId(i)) : t \in ValidSourceTypes, u \in {HttpUrl, RepoUrl, UploadedUrl},
                             i \in 1..Max(MaxJobs, RunJobs)}

\* The answers of the route to each request body, over the server's environments.
RouteResponses ==
  [req \in BatchRequests |-> {ClientView(POST(req, env).resp) : env \in BatchEnvs}]

FetchResults(job, finalSourceUrl) ==
  {Fetched(resp) : resp \in RouteResponses[Request(job.sourceType, finalSourceUrl, job.projectId)]}
    \cup {Fetched(GatewayResponse), Fetched(PlainResponse), FetchThrew("Failed to fetch")}

ResponseOk(resp) == resp.status >= 200 /\ resp.status <= 299

\* isRecord(parsed.data)
IsRecordData(resp) == resp.kind = "json"

getApiErrorMessage(fallbackMessage, resp) ==
  IF IsRecordData(resp) /\ resp.error # Undefined THEN resp.error
  ELSE IF resp.kind = "html"
    THEN fallbackMessage \o " (HTML response, HTTP " \o ToString(resp.status) \o ")"
  ELSE fallbackMessage \o " (HTTP " \o ToString(resp.status) \o ")"

\* The disabled attribute of the two run buttons.
RunAllDisabled == view.isGenerating \/ view.isBulkRunning \/ Len(bulkJobs) = 0
RetryDisabled ==
  view.isGenerating \/ view.isBulkRunning \/ ~(\E i \in 1..Len(bulkJobs) : IsFailed(bulkJobs[i]))

\* Whether the guard of the first line of runBulkGeneration returns.
RunGuardReturns == view.isGenerating \/ view.isBulkRunning

Ids(jobs) == {jobs[i].projectId : i \in 1..Len(jobs)}

\* The body of runBulkGeneration up to the creation of the workers.  The
\* closure's bulkJobs is the rendered job list.
runBulkGeneration(onlyFailed) ==
  IF RunGuardReturns THEN UNCHANGED vars
  ELSE LET toRun == JobsToRun(bulkJobs, onlyFailed)
           jobIds == Ids(toRun)
       IN  IF Len(toRun) = 0
             THEN /\ bulkCsvError' = << CsvError(0, IF onlyFailed THEN "nothing to retry"
                                                                  ELSE "parse a CSV first") >>
                  /\ UNCHANGED <<bulkCsvText, bulkJobs, bulkPdfFiles, bulkConcurrency,
                                 bulkSummary, isBulkRunning, isGenerating, view,
                                 runVars, serverVars>>
             ELSE /\ bulkJobs' = Requeue(bulkJobs, jobIds)
                  /\ bulkCsvError' = NoCsvError
                  /\ bulkSummary' = NoSummary
                  /\ isBulkRunning' = TRUE
                  /\ successCount' = 0
                  /\ failedCount' = 0
                  /\ failedOnly' = onlyFailed
                  /\ jobsToRun' = [i \in 1..Len(toRun) |-> QueuedJob(toRun[i])]
                  /\ queue' = jobsToRun'
                  /\ workerCount' = WorkerCount(bulkConcurrency, Len(toRun))
                  /\ runPc' = "spawn"
                  /\ UNCHANGED <<bulkCsvText, bulkPdfFiles, bulkConcurrency, isGenerating,
                                 view, wpc, wjob, wurl, wresp, serverVars>>

ClickRunAll == Rendered /\ ~RunAllDisabled /\ runBulkGeneration(FALSE)

ClickRetryFailed == Rendered /\ ~RetryDisabled /\ runBulkGeneration(TRUE)

\* A pop that reads the head and leaves it in the queue.
ShiftRest_Keep(q) == q

\* queue.shift(): the element returned and the queue left.
ShiftJob(q) == Head(q)
ShiftRest(q) == Tail(q)

\* `while (queue.length > 0) { const job = queue.shift(); ... }` of worker w,
\* entered with the job list `jobs`: either the worker takes the next job,
\* marks it running and starts resolving its source, or it returns.
WorkerLoop(w, jobs) ==
  IF Len(queue) > 0
    THEN LET job == ShiftJob(queue)
         IN  /\ queue' = ShiftRest(queue)
             /\ bulkJobs' = updateBulkJob(jobs, job.projectId, "running", "processing", Undefined)
             /\ wpc' = [wpc EXCEPT ![w] = "resolve"]
             /\ wjob' = [wjob EXCEPT ![w] = job]
    ELSE /\ queue' = queue
         /\ bulkJobs' = jobs
         /\ wpc' = [wpc EXCEPT ![w] = "done"]
         /\ wjob' = [wjob EXCEPT ![w] = NoJob]

\* Array.from({ length: workerCount }, async () => ...): the next worker is
\* created and runs up to its first await.
SpawnWorker ==
  /\ runPc = "spawn"
  /\ LET w == CHOOSE v \in Workers : wpc[v] = "off" /\ \A u \in 1..(v - 1) : wpc[u] # "off"
     IN  /\ WorkerLoop(w, bulkJobs)
         /\ runPc' = IF w = workerCount THEN "await" ELSE "spawn"
  /\ UNCHANGED <<bulkCsvText, bulkCsvError, bulkPdfFiles, bulkConcurrency, bulkSummary,
                 isBulkRunning, isGenerating, view, failedOnly, jobsToRun, workerCount,
                 successCount, failedCount, wurl, wresp, serverVars>>

\* A catch block that records the failure and lets the worker end.
JobFails_Abort(w, message) ==
  /\ failedCount' = failedCount + 1
  /\ successCount' = successCount
  /\ queue' = queue
  /\ bulkJobs' = updateBulkJobFailed(bulkJobs, wjob[w].projectId, message)
  /\ wpc' = [wpc EXCEPT ![w] = "done"]
  /\ wjob' = [wjob EXCEPT ![w] = NoJob]
  /\ wurl' = [wurl EXCEPT ![w] = ""]
  /\ wresp' = [wresp EXCEPT ![w] = NoResponse]

\* A failure that is patched into the job and not counted.
JobFails_Uncounted(w, message) ==
  /\ failedCount' = failedCount
  /\ successCount' = successCount
  /\ WorkerLoop(w, updateBulkJobFailed(bulkJobs, wjob[w].projectId, message))
  /\ wurl' = [wurl EXCEPT ![w] = ""]
  /\ wresp' = [wresp EXCEPT ![w] = NoResponse]

\* The catch block of the worker, then the next loop iteration.
JobFails(w, message) ==
  /\ failedCount' = failedCount + 1
  /\ successCount' = successCount
  /\ WorkerLoop(w, updateBulkJobFailed(bulkJobs, wjob[w].projectId, message))
  /\ wurl' = [wurl EXCEPT ![w] = ""]
  /\ wresp' = [wresp EXCEPT ![w] = NoResponse]

\* The success branch of the worker, then the next loop iteration.
JobSucceeds(w, resp) ==
  /\ successCount' = successCount + 1
  /\ failedCount' = failedCount
  /\ WorkerLoop(w, updateBulkJob(bulkJobs, wjob[w].projectId, "success",
                                 IF resp.message # Undefined THEN resp.message ELSE "done",
                                 resp.title))
  /\ wurl' = [wurl EXCEPT ![w] = ""]
  /\ wresp' = [wresp EXCEPT ![w] = NoResponse]

\* `await resolveBulkSourceUrl(job)` settles; on success fetch is called.
ResolveSettles(w) ==
  /\ runPc = "await" /\ wpc[w] = "resolve"
  /\ \E r \in resolveBulkSourceUrl(wjob[w], bulkPdfFiles) :
       IF r.ok
         THEN /\ wurl' = [wurl EXCEPT ![w] = r.value]
              /\ wpc' = [wpc EXCEPT ![w] = "fetch"]
              /\ UNCHANGED <<bulkJobs, queue, successCount, failedCount, wjob, wresp>>
         ELSE JobFails(w, r.value)
  /\ UNCHANGED <<bulkCsvText, bulkCsvError, bulkPdfFiles, bulkConcurrency, bulkSummary,
                 isBulkRunning, isGenerating, view, runPc, failedOnly, jobsToRun,
                 workerCount, serverVars>>

\* `await fetch('/api/generate', ...)` settles; on a response parseApiResponse is called.
FetchSettles(w) ==
  /\ runPc = "await" /\ wpc[w] = "fetch"
  /\ \E r \in FetchResults(wjob[w], wurl[w]) :
       IF r.ok
         THEN /\ wresp' = [wresp EXCEPT ![w] = r.resp]
              /\ wpc' = [wpc EXCEPT ![w] = "parse"]
              /\ UNCHANGED <<bulkJobs, queue, successCount, failedCount, wjob, wurl>>
         ELSE JobFails(w, r.message)
  /\ UNCHANGED <<bulkCsvText, bulkCsvError, bulkPdfFiles, bulkConcurrency, bulkSummary,
                 isBulkRunning, isGenerating, view, runPc, failedOnly, jobsToRun,
                 workerCount, serverVars>>

\* `await parseApiResponse(response)` returns: the rest of the try block.
ParseSettles(w) ==
  /\ runPc = "await" /\ wpc[w] = "parse"
  /\ IF ~ResponseOk(wresp[w]) THEN JobFails(w, getApiErrorMessage("generation failed", wresp[w]))
     ELSE IF ~IsRecordData(wresp[w]) THEN JobFails(w, "response is not JSON")
     ELSE JobSucceeds(w, wresp[w])
  /\ UNCHANGED <<bulkCsvText, bulkCsvError, bulkPdfFiles, bulkConcurrency, bulkSummary,
                 isBulkRunning, isGenerating, view, runPc, failedOnly, jobsToRun,
                 workerCount, serverVars>>

AllWorkersDone == \A w \in 1..workerCount : wpc[w] = "done"

\* Promise.all(workers) resolves: the summary, then the finally block.
FinishRun ==
  /\ runPc = "await" /\ AllWorkersDone
  /\ bulkSummary' = << [total |-> Len(jobsToRun), success |-> successCount,
                        failed |-> failedCount] >>
  /\ isBulkRunning' = FALSE
  /\ runPc' = "idle"
  /\ wpc' = [w \in Workers |-> "off"]
  /\ jobsToRun' = << >> /\ failedOnly' = FALSE
  /\ workerCount' = 0 /\ successCount' = 0 /\ failedCount' = 0
  /\ UNCHANGED <<bulkCsvText, bulkJobs, bulkCsvError, bulkPdfFiles, bulkConcurrency,
                 isGenerating, view, queue, wjob, wurl, wresp, serverVars>>

(***************************************************************************)
(* The admin page: the batch panel from the state after construction.      *)
(***************************************************************************)
\* Row i of the batch inputs of the model: a repository, an uploaded PDF
\* named by pdfFileName, a PDF named by a file: reference, in turn.
BatchRow(i) ==
  CASE i % 3 = 1 -> Row("github", RepoUrl, JobId(i), "")
    [] i % 3 = 2 -> Row("pdf", "", JobId(i), PdfName)
    [] OTHER -> Row("PDF", FileRef, JobId(i), "")

FullBatch == [i \in 1..MaxJobs |-> BatchRow(i)]

BatchCsvInputs == {FullBatch}

InitPage ==
  /\ bulkCsvText = << >>
  /\ bulkJobs = << >>
  /\ bulkCsvError = NoCsvError
  /\ bulkPdfFiles = {}
  /\ bulkConcurrency = 2
  /\ bulkSummary = NoSummary
  /\ isBulkRunning = FALSE
  /\ isGenerating = FALSE
  /\ view = [isGenerating |-> FALSE, isBulkRunning |-> FALSE]

InitRun ==
  /\ runPc = "idle"
  /\ failedOnly = FALSE
  /\ jobsToRun = << >>
  /\ queue = << >>
  /\ workerCount = 0
  /\ successCount = 0
  /\ failedCount = 0
  /\ wpc = [w \in Workers |-> "off"]
  /\ wjob = [w \in Workers |-> NoJob]
  /\ wurl = [w \in Workers |-> ""]
  /\ wresp = [w \in Workers |-> NoResponse]

NoAuthorCall ==
  [pc |-> "none", base |-> << >>, incoming |-> << >>, allowNewNames |-> TRUE,
   result |-> << >>]

InitServer ==
  /\ pipe = IdlePipeline
  /\ store = [id \in {} |-> Undefined]
  /\ authorCall = NoAuthorCall

Init == InitPage /\ InitRun /\ InitServer

RunNext ==
  \/ SpawnWorker
  \/ \E w \in Workers : ResolveSettles(w)
  \/ \E w \in Workers : FetchSettles(w)
  \/ \E w \in Workers : ParseSettles(w)
  \/ FinishRun

Next ==
  \/ \E rows \in BatchCsvInputs : EditCsvText(rows)
  \/ \E n \in 1..PoolLimit : SetBulkConcurrency(n)
  \/ \E files \in SUBSET {PdfName} : handleBulkPdfFilesSelect(files)
  \/ handleParseBulkCsv
  \/ ResetBulk
  \/ Render
  \/ ClickRunAll
  \/ ClickRetryFailed
  \/ RunNext

Spec == Init /\ [][Next]_vars

(***************************************************************************)
(* A batch of RunJobs rows, parsed and ready to run, under each setting of *)
(* the concurrency select.  No PDF file has been selected, so the rows     *)
(* that name an uploaded file fail when their source is resolved.          *)
(***************************************************************************)
RunBatch == [i \in 1..RunJobs |-> BatchRow(i)]

InitRunBatch ==
  /\ bulkCsvText = RunBatch
  /\ bulkJobs = parseBulkCsv(RunBatch).jobs
  /\ bulkCsvError = NoCsvError
  /\ bulkPdfFiles = {}
  /\ bulkConcurrency \in 1..PoolLimit
  /\ bulkSummary = NoSummary
  /\ isBulkRunning = FALSE
  /\ isGenerating = FALSE
  /\ view = [isGenerating |-> FALSE, isBulkRunning |-> FALSE]
  /\ InitRun /\ InitServer

NextRunBatch ==
  \/ Render
  \/ ClickRunAll
  \/ ClickRetryFailed
  \/ RunNext

SpecRun == InitRunBatch /\ [][NextRunBatch]_vars

\* The workers run whenever one of their awaited calls has settled.
FairRun == SpecRun /\ WF_vars(RunNext)

(***************************************************************************)
(* The parse button alone, on every CSV body of at most MaxRows rows.      *)
(***************************************************************************)
CsvSources == {<<"", "">>, <<HttpUrl, "">>, <<"", PdfName>>}

CsvRows ==
  {Row(t, src[1], id, src[2]) : t \in {"pdf", "GitHub", "docx"},
                                id \in {"", JobId(1), JobId(2)},
                                src \in CsvSources}

CsvTexts == SeqsUpTo(CsvRows, MaxRows)

InitParse ==
  /\ bulkCsvText \in CsvTexts
  /\ bulkJobs = << >>
  /\ bulkCsvError = NoCsvError
  /\ bulkPdfFiles = {}
  /\ bulkConcurrency = 2
  /\ bulkSummary = NoSummary
  /\ isBulkRunning = FALSE
  /\ isGenerating = FALSE
  /\ view = [isGenerating |-> FALSE, isBulkRunning |-> FALSE]
  /\ InitRun /\ InitServer

SpecParse == InitParse /\ [][handleParseBulkCsv]_vars

(***************************************************************************)
(* The batch panel on CSV bodies whose rows are valid, are rejected by     *)
(* parseBulkCsv, or name a PDF by an empty file: reference: edit, parse,   *)
(* run all.                                                                *)
(***************************************************************************)
MaxSourceRows == 2

SourceRows ==
  {Row("github", RepoUrl, JobId(1), ""),
   Row("pdf", EmptyFileRef, JobId(2), ""),
   Row("pdf", "", JobId(2), ""),
   Row("docx", HttpUrl, JobId(3), ""),
   Row("github", RepoUrl, "", "")}

SourceCsvInputs == SeqsUpTo(SourceRows, MaxSourceRows) \ {<< >>}

NextSource ==
  \/ \E rows \in SourceCsvInputs : EditCsvText(rows)
  \/ handleParseBulkCsv
  \/ Render
  \/ ClickRunAll
  \/ RunNext

SpecSource == Init /\ [][NextSource]_vars

(***************************************************************************)
(* The generate route step by step: one request at a time, each            *)
(* collaborator's outcome drawn when the route awaits it.                  *)
(***************************************************************************)
PipelineRequests ==
  {Request(t, u, id) : t \in ValidSourceTypes, u \in {"", HttpUrl},
                       id \in {"", JobId(1), JobId(2)}}

\* A write that leaves a file that already exists as it is.
WriteFile_KeepExisting(files, projectId, document) ==
  [id \in DOMAIN files \cup {projectId} |->
     IF id \in DOMAIN files THEN files[id] ELSE document]

\* writeFile(<contentDir>/<projectId>.md, markdown)
WriteFile(files, projectId, document) ==
  [id \in DOMAIN files \cup {projectId} |->
     IF id = projectId THEN document ELSE files[id]]

ReceiveRequest ==
  /\ pipe.pc \in {"idle", "done"}
  /\ \E req \in PipelineRequests, apiKey \in BOOLEAN :
       pipe' = NewPipeline(req, [IdlePipeline.env EXCEPT !.apiKey = apiKey])
  /\ UNCHANGED <<batchVars, runVars, store, authorCall>>

CheckRequest ==
  /\ pipe.pc = "start"
  /\ pipe' = StepStart(pipe)
  /\ UNCHANGED <<batchVars, runVars, store, authorCall>>

LoadPdf ==
  /\ pipe.pc = "load"
  /\ \E outcome \in LoadOutcomes : pipe' = StepLoad([pipe EXCEPT !.env.load = outcome])
  /\ UNCHANGED <<batchVars, runVars, store, authorCall>>

ExtractPdf ==
  /\ pipe.pc = "extract"
  /\ \E outcome \in ExtractOutcomes : pipe' = StepExtract([pipe EXCEPT !.env.extract = outcome])
  /\ UNCHANGED <<batchVars, runVars, store, authorCall>>

Generate ==
  /\ pipe.pc = "generate"
  /\ \E outcome \in GeneratorOutcomes : pipe' = StepGenerate([pipe EXCEPT !.env.gen = outcome])
  /\ UNCHANGED <<batchVars, runVars, store, authorCall>>

ParseGenerated ==
  /\ pipe.pc = "parse"
  /\ pipe' = StepParse(pipe)
  /\ UNCHANGED <<batchVars, runVars, store, authorCall>>

Persist ==
  /\ pipe.pc = "persist"
  /\ \E outcome \in PersistOutcomes :
       /\ pipe' = StepPersist([pipe EXCEPT !.env.persist = outcome])
       /\ store' = IF outcome = "ok"
                     THEN WriteFile(store, pipe.req.projectId, Document(pipe))
                     ELSE store
  /\ UNCHANGED <<batchVars, runVars, authorCall>>

NextPipeline ==
  \/ ReceiveRequest
  \/ CheckRequest
  \/ LoadPdf
  \/ ExtractPdf
  \/ Generate
  \/ ParseGenerated
  \/ Persist

SpecPipeline == Init /\ [][NextPipeline]_vars

(***************************************************************************)
(* mergeAuthorSets on every pair of rosters of at most MaxAuthors entries. *)
(***************************************************************************)
AuthorNames ==
  {<< >>, <<" ">>, <<"a">>, <<"A", " ">>, <<"a", " ", "b">>, <<"a", " ", " ", "b">>}

Authors == {Author(name, url, Undefined, Undefined) : name \in AuthorNames,
                                                      url \in {Undefined, "https://a"}}

Rosters == SeqsUpTo(Authors, MaxAuthors)

InitMerge ==
  /\ InitPage /\ InitRun
  /\ pipe = IdlePipeline
  /\ store = [id \in {} |-> Undefined]
  /\ \E base \in Rosters, incoming \in Rosters, allowNewNames \in BOOLEAN :
       authorCall = [pc |-> "called", base |-> base, incoming |-> incoming,
                     allowNewNames |-> allowNewNames, result |-> << >>]

ReturnMerged ==
  /\ authorCall.pc = "called"
  /\ authorCall' = [authorCall EXCEPT
                      !.pc = "returned",
                      !.result = mergeAuthorSets(authorCall.base, authorCall.incoming,
                                                 authorCall.allowNewNames)]
  /\ UNCHANGED <<batchVars, runVars, pipe, store>>

SpecMerge == InitMerge /\ [][ReturnMerged]_vars

(***************************************************************************)
(* loadPdfBufferFromSource step by step: the lookup under public/papers,   *)
(* then each fetch the function awaits, with the answer drawn when the     *)
(* fetch settles.  pipe holds the call: the sourceUrl, whether GITHUB_TOKEN*)
(* is set, whether the named file exists locally, the attempts made so far *)
(* and the outcome.                                                        *)
(***************************************************************************)
LocalPaper == "/papers/a.pdf"
FileHint == "file:a.pdf"
GitHubBlob == "https://github.com/o/r/blob/main/a.pdf"
GitHubRaw == "https://raw.githubusercontent.com/o/r/main/a.pdf"
GitHubRepoPage == "https://github.com/o/r"
OtherHost == "https://example.org/a.pdf"
OtherHostPage == "http://example.org/paper"

SourceUrls ==
  {LocalPaper, FileHint, GitHubBlob, GitHubRaw, GitHubRepoPage, OtherHost, OtherHostPage}

\* sourceUrl.startsWith('http://') || sourceUrl.startsWith('https://')
IsHttp(sourceUrl) ==
  sourceUrl \in {GitHubBlob, GitHubRaw, GitHubRepoPage, OtherHost, OtherHostPage}

\* parseGitHubFileUrl(sourceUrl) is not null: a raw.githubusercontent.com
\* path of at least 4 parts or a github.com /owner/repo/blob/ref/path.
parseGitHubFileUrl(sourceUrl) == sourceUrl \in {GitHubBlob, GitHubRaw}

\* sourceUrl.includes('github.com') || sourceUrl.includes('githubusercontent.com')
shouldTryAuthHttpFetch(sourceUrl) == sourceUrl \in {GitHubBlob, GitHubRaw, GitHubRepoPage}

\* resolveLocalPdfPathFromSourceUrl can name a candidate: a /papers/ path or
\* a basename that ends in .pdf; it returns it when the file exists.
NamesLocalCandidate(sourceUrl) ==
  sourceUrl \in {LocalPaper, FileHint, GitHubBlob, GitHubRaw, OtherHost}

resolveLocalPdfPathFromSourceUrl(sourceUrl, localExists) ==
  NamesLocalCandidate(sourceUrl) /\ localExists

Attempt(kind, outcome) == [kind |-> kind, outcome |-> outcome]

LoadCall(sourceUrl, token, localExists) ==
  [pc |-> "local", sourceUrl |-> sourceUrl, token |-> token, localExists |-> localExists,
   attempts |-> << >>, outcome |-> "pending"]

InitLoad ==
  /\ InitPage /\ InitRun
  /\ \E sourceUrl \in SourceUrls, token \in BOOLEAN, localExists \in BOOLEAN :
       pipe = LoadCall(sourceUrl, token, localExists)
  /\ store = [id \in {} |-> Undefined]
  /\ authorCall = NoAuthorCall

\* Where the function goes after the GitHub API attempt gave no buffer
\* (lines 353-356): the authenticated fetch of the url itself, or the plain fetch.
AfterGitHubApi(call) ==
  IF call.token /\ shouldTryAuthHttpFetch(call.sourceUrl) THEN "authFetch" ELSE "directFetch"

\* Lines 343-350: the local lookup, and for an http(s) url the synchronous
\* part of loadPdfBufferFromGitHubUrl (lines 310-318) up to its fetch.
LoadLocal ==
  /\ pipe.pc = "local"
  /\ LET found == resolveLocalPdfPathFromSourceUrl(pipe.sourceUrl, pipe.localExists)
         tried == Append(pipe.attempts, Attempt("local", IF found THEN "ok" ELSE "none"))
     IN  pipe' =
           IF found
             THEN [pipe EXCEPT !.pc = "returned", !.attempts = tried, !.outcome = "buffer"]
           ELSE IF ~IsHttp(pipe.sourceUrl)
             THEN [pipe EXCEPT !.pc = "returned", !.attempts = tried, !.outcome = "null"]
           ELSE IF parseGitHubFileUrl(pipe.sourceUrl) /\ pipe.token
             THEN [pipe EXCEPT !.pc = "githubApi", !.attempts = tried]
           ELSE [pipe EXCEPT !.pc = AfterGitHubApi(pipe), !.attempts = tried]
  /\ UNCHANGED <<batchVars, runVars, store, authorCall>>

\* The fetch of api.github.com with the Authorization header settles
\* (lines 321-339): a base64 payload is the buffer, anything else is null.
LoadGitHubApi ==
  /\ pipe.pc = "githubApi"
  /\ \E answer \in {"content", "noContent", "notOk", "throws"} :
       LET tried == Append(pipe.attempts, Attempt("githubApi", answer))
       IN  pipe' =
             CASE answer = "content" ->
                    [pipe EXCEPT !.pc = "returned", !.attempts = tried, !.outcome = "buffer"]
               [] answer = "throws" ->
                    [pipe EXCEPT !.pc = "returned", !.attempts = tried, !.outcome = "throws"]
               [] OTHER ->
                    [pipe EXCEPT !.pc = AfterGitHubApi(pipe), !.attempts = tried]
  /\ UNCHANGED <<batchVars, runVars, store, authorCall>>

\* The fetch of the url with the Authorization header settles (lines 357-366).
LoadAuthenticated ==
  /\ pipe.pc = "authFetch"
  /\ \E answer \in {"ok", "notOk", "throws"} :
       LET tried == Append(pipe.attempts, Attempt("authenticated", answer))
       IN  pipe' =
             CASE answer = "ok" ->
                    [pipe EXCEPT !.pc = "returned", !.attempts = tried, !.outcome = "buffer"]
               [] answer = "throws" ->
                    [pipe EXCEPT !.pc = "returned", !.attempts = tried, !.outcome = "throws"]
               [] OTHER ->
                    [pipe EXCEPT !.pc = "directFetch", !.attempts = tried]
  /\ UNCHANGED <<batchVars, runVars, store, authorCall>>

\* The fetch of the url without credentials settles (lines 369-374).
LoadDirect ==
  /\ pipe.pc = "directFetch"
  /\ \E answer \in {"ok", "notOk", "throws"} :
       pipe' = [pipe EXCEPT !.pc = "returned",
                            !.attempts = Append(@, Attempt("direct", answer)),
                            !.outcome = IF answer = "ok" THEN "buffer" ELSE "throws"]
  /\ UNCHANGED <<batchVars, runVars, store, authorCall>>

NextLoad == LoadLocal \/ LoadGitHubApi \/ LoadAuthenticated \/ LoadDirect

SpecLoad == InitLoad /\ [][NextLoad]_vars

(***************************************************************************)
(* The author functions as POST calls them.  A base roster is what         *)
(* toAuthorObjectsFromNames or an earlier merge returned: its names are    *)
(* trimmed and not empty.  A merge may be followed by a merge of its       *)
(* result (lines 955-965); the backfill and the whole roster computation   *)
(* are single calls.                                                       *)
(***************************************************************************)
MaxChain == 2
MaxItems == 2

FieldSets == {<<Undefined, Undefined, Undefined>>,
              <<"https://a", Undefined, "false">>,
              <<"https://b", "MIT", "true">>,
              <<Undefined, "CMU", Undefined>>}

WithFields(names, fields) ==
  {Author(name, f[1], f[2], f[3]) : name \in names, f \in fields}

BaseAuthors ==
  WithFields({<<"a">>, <<"A">>, <<"b">>},
             {<<Undefined, Undefined, Undefined>>, <<"https://a", Undefined, "false">>})

IncomingAuthors == WithFields({<<"A">>, <<"b", " ">>}, FieldSets)

BaseRosters == SeqsUpTo(BaseAuthors, MaxAuthors)

IncomingRosters == SeqsUpTo(IncomingAuthors, MaxAuthors)

\* The incoming lists of the merges of a chain: nobody, or one candidate.
IncomingSingles == {<< >>} \cup {<<author>> : author \in IncomingAuthors}

MergeCall(origin, base, incoming, allowNewNames, step) ==
  [pc |-> "called", origin |-> origin, base |-> base, incoming |-> incoming,
   allowNewNames |-> allowNewNames, step |-> step, result |-> << >>]

\* The next merge of the chain takes the result of the one before as its base.
MergeAgain ==
  /\ authorCall.pc = "returned"
  /\ authorCall.step < MaxChain
  /\ \E incoming \in IncomingSingles, allowNewNames \in BOOLEAN :
       authorCall' = MergeCall(authorCall.origin, authorCall.result, incoming,
                               allowNewNames, authorCall.step + 1)
  /\ UNCHANGED <<batchVars, runVars, pipe, store>>

\* applyAffiliationByPosition(baseAuthors, manualAuthors)
Affiliated(name, affiliation) == Author(name, Undefined, affiliation, Undefined)

BackfillBase ==
  SeqsUpTo({Affiliated(<<"A">>, Undefined), Affiliated(<<"B">>, Undefined),
            Affiliated(<<"B">>, "KAIST")}, MaxAuthors)

BackfillEnrichment ==
  SeqsUpTo({Affiliated(<<"X">>, "MIT"), Affiliated(<<"Y">>, "CMU"),
            Affiliated(<<"Y">>, Undefined), Affiliated(<<"Y">>, "")}, MaxAuthors)

BackfillCall(base, enrichment) ==
  [pc |-> "backfillCalled", base |-> base, enrichment |-> enrichment, result |-> << >>]

ReturnBackfilled ==
  /\ authorCall.pc = "backfillCalled"
  /\ authorCall' = [authorCall EXCEPT
                      !.pc = "backfillReturned",
                      !.result = applyAffiliationByPosition(authorCall.base,
                                                            authorCall.enrichment)]
  /\ UNCHANGED <<batchVars, runVars, pipe, store>>

\* What extractAuthorsFromPdfText can return: names trimmed, whitespace
\* collapsed, not empty, no two equal after lowercasing.
DetectedNames == {<<"a">>, <<"a", " ", "b">>, <<"b">>}

DetectedLists ==
  {names \in SeqsUpTo(DetectedNames, MaxItems) :
     \A i, j \in 1..Len(names) : i # j => names[i] # names[j]}

\* The authors field of the request: absent, or a comma separated text.
AuthorTexts ==
  {NotAString,
   StringOf(<< >>),
   StringOf(<<"A">>),
   StringOf(<<"b", ",", " ", "a">>),
   StringOf(<<"a", " ", " ", "b", ",", "a", " ", "b">>)}

ManualItems ==
  {ObjectItem(<<"a">>, Undefined, " MIT ", Undefined),
   ObjectItem(<<"A", " ">>, "https://m", Undefined, "true"),
   ObjectItem(<<"c">>, " ", "CMU", Undefined),
   ObjectItem(<<" ">>, Undefined, "CMU", Undefined)}

GeneratedItems ==
  {StringItem(<<"d">>),
   ObjectItem(<<"a", " ", "b">>, "https://g", "KAIST", "false"),
   ObjectItem(<<"a">>, "https://g", "KAIST", Undefined)}

ArraysOf(items) == {NotAnArray} \cup {ArrayOf(list) : list \in SeqsUpTo(items, MaxItems)}

RosterCall(sourceType, detected, authors, authorList, generated) ==
  [pc |-> "rosterCalled", sourceType |-> sourceType, detected |-> detected,
   authors |-> authors, authorList |-> authorList, generated |-> generated,
   result |-> << >>]

InitAuthors ==
  /\ InitPage /\ InitRun
  /\ pipe = IdlePipeline
  /\ store = [id \in {} |-> Undefined]
  /\ \/ \E base \in BaseRosters, incoming \in IncomingRosters, allowNewNames \in BOOLEAN :
          authorCall = MergeCall(base, base, incoming, allowNewNames, 1)
     \/ \E base \in BackfillBase, enrichment \in BackfillEnrichment :
          authorCall = BackfillCall(base, enrichment)
     \/ \E sourceType \in {"pdf", "github"}, authors \in AuthorTexts,
           authorList \in ArraysOf(ManualItems), generated \in ArraysOf(GeneratedItems) :
          \E detected \in IF sourceType = "pdf" THEN DetectedLists ELSE {<< >>} :
            authorCall = RosterCall(sourceType, detected, authors, authorList, generated)

ReturnRoster ==
  /\ authorCall.pc = "rosterCalled"
  /\ authorCall' = [authorCall EXCEPT
                      !.pc = "rosterReturned",
                      !.result = AuthorRoster(authorCall.sourceType, authorCall.detected,
                                              authorCall.authors, authorCall.authorList,
                                              authorCall.generated)]
  /\ UNCHANGED <<batchVars, runVars, pipe, store>>

NextAuthors == ReturnMerged \/ ReturnBackfilled \/ ReturnRoster

SpecAuthors == InitAuthors /\ [][NextAuthors]_vars

\* A chain of merges: each takes the result of the one before as its base.
InitChain ==
  /\ InitPage /\ InitRun
  /\ pipe = IdlePipeline
  /\ store = [id \in {} |-> Undefined]
  /\ \E origin \in BaseRosters, incoming \in IncomingSingles, allowNewNames \in BOOLEAN :
       authorCall = MergeCall(origin, origin, incoming, allowNewNames, 1)

NextChain == ReturnMerged \/ MergeAgain

SpecChain == InitChain /\ [][NextChain]_vars

(***************************************************************************)
(* Properties of the batch orchestrator.                                   *)
(***************************************************************************)
Terminal == {"success", "failed"}

Holding(w) == wpc[w] \in {"resolve", "fetch", "parse"}

Holders(id) == {w \in Workers : Holding(w) /\ wjob[w].projectId = id}

QueuePlaces(id) == {k \in 1..Len(queue) : queue[k].projectId = id}

StatusOf(id) == LET i == CHOOSE k \in 1..Len(bulkJobs) : bulkJobs[k].projectId = id
                IN  bulkJobs[i].status

\* max(1, min(3, configured concurrency, number of jobs in the run))
ClaimedWorkerCount == Max(1, Min(3, Min(bulkConcurrency, Len(jobsToRun))))

\* C1: during a batch run the number of jobs whose status is 'running' never
\* exceeds the worker count max(1, min(3, configured concurrency, jobs in the
\* run)); with concurrency 2 and 5 jobs at most 2 jobs are running.
C1_RunningBounded ==
  /\ runPc # "idle" => CountStatus(bulkJobs, "running") <= ClaimedWorkerCount
  /\ runPc = "idle" => CountStatus(bulkJobs, "running") = 0
  /\ (bulkConcurrency = 2 /\ Len(bulkJobs) = 5) => CountStatus(bulkJobs, "running") <= 2

C1_Witness ==
  /\ Len(bulkJobs) = 5 /\ bulkConcurrency = 2 /\ ~failedOnly /\ workerCount = 2
  /\ CountStatus(bulkJobs, "running") = 2
  /\ CountStatus(bulkJobs, "queued") >= 1
  /\ CountStatus(bulkJobs, "success") >= 1

\* C2: within one batch run every job of the run is in the queue once, or held
\* by exactly one worker, or finished, never two of these; the counters count
\* each finished job once; and the workers end only when the queue is empty.
C2_EachJobOnce ==
  runPc # "idle" =>
    /\ \A id \in Ids(jobsToRun) :
         /\ Cardinality(QueuePlaces(id)) + Cardinality(Holders(id)) <= 1
         /\ QueuePlaces(id) # {} => StatusOf(id) = "queued"
         /\ Holders(id) # {} => StatusOf(id) = "running"
         /\ (QueuePlaces(id) = {} /\ Holders(id) = {}) => StatusOf(id) \in Terminal
    /\ successCount + failedCount =
         Cardinality({id \in Ids(jobsToRun) : QueuePlaces(id) = {} /\ Holders(id) = {}})
    /\ \A w \in Workers : Holding(w) => wjob[w].projectId \in Ids(jobsToRun)
    /\ (runPc = "await" /\ AllWorkersDone) => Len(queue) = 0

C2_Witness ==
  /\ runPc = "await"
  /\ \E v, w \in Workers : v # w /\ Holding(v) /\ Holding(w)
  /\ Len(queue) >= 1
  /\ successCount >= 1 /\ failedCount >= 1

\* C3: 'retry failed only' moves exactly the jobs currently 'failed' to
\* 'queued' and runs only those; every other job (a 'success' job) keeps its
\* status, message and generatedTitle in that step and throughout the run.
C3_RetryFrame ==
  [][/\ (runPc = "idle" /\ runPc' = "spawn" /\ failedOnly') =>
          /\ Len(bulkJobs') = Len(bulkJobs)
          /\ \A i \in 1..Len(bulkJobs) :
               IF bulkJobs[i].status = "failed"
                 THEN /\ bulkJobs'[i].status = "queued"
                      /\ bulkJobs[i].projectId \in Ids(jobsToRun')
                 ELSE /\ bulkJobs'[i] = bulkJobs[i]
                      /\ bulkJobs[i].projectId \notin Ids(jobsToRun')
     /\ (runPc # "idle" /\ failedOnly) =>
          /\ Len(bulkJobs') = Len(bulkJobs)
          /\ \A i \in 1..Len(bulkJobs) :
               bulkJobs[i].projectId \notin Ids(jobsToRun) => bulkJobs'[i] = bulkJobs[i]
    ]_vars

\* The batch [success, failed, failed] in the middle of its retry run.
C3_Witness ==
  /\ failedOnly /\ runPc = "await" /\ Len(bulkJobs) = 3
  /\ bulkJobs[1].status = "success" /\ bulkJobs[1].message = "page generated"
  /\ bulkJobs[1].generatedTitle # Undefined
  /\ Len(jobsToRun) = 2
  /\ bulkJobs[2].status \in Terminal /\ bulkJobs[3].status = "running"

\* A step that replaces the batch by freshly parsed jobs (or by none).
BatchReplaced ==
  /\ runPc = "idle" /\ runPc' = "idle"
  /\ \A i \in 1..Len(bulkJobs') :
       /\ bulkJobs'[i].status = "queued"
       /\ bulkJobs'[i].message = Undefined
       /\ bulkJobs'[i].generatedTitle = Undefined

\* C4: every status change of a job is queued -> running (a worker dequeues
\* it), running -> success, running -> failed, or a re-queue by a run-all or
\* retry command, which clears message and generatedTitle.
C4_JobTransitions ==
  [][\/ BatchReplaced
     \/ /\ Len(bulkJobs') = Len(bulkJobs)
        /\ \A i \in 1..Len(bulkJobs) :
             LET a == bulkJobs[i]
                 b == bulkJobs'[i]
             IN  /\ a.projectId = b.projectId
                 /\ a.status # b.status =>
                      \/ /\ a.status = "queued" /\ b.status = "running"
                         /\ Len(queue) > 0 /\ Head(queue).projectId = a.projectId
                         /\ Len(queue') = Len(queue) - 1
                         /\ \E w \in Workers :
                              /\ ~Holding(w) \/ wjob[w].projectId # a.projectId
                              /\ wpc'[w] = "resolve" /\ wjob'[w].projectId = a.projectId
                      \/ a.status = "running" /\ b.status \in Terminal
                      \/ /\ b.status = "queued"
                         /\ runPc = "idle" /\ runPc' = "spawn"
                         /\ b.message = Undefined /\ b.generatedTitle = Undefined
    ]_vars

\* A failed job with a message has been re-queued by a retry command.
C4_Witness ==
  /\ failedOnly /\ runPc = "spawn"
  /\ \E i \in 1..Len(bulkJobs) :
       /\ bulkJobs[i].status = "queued" /\ bulkJobs[i].message = Undefined
  /\ \E i \in 1..Len(bulkJobs) : bulkJobs[i].status = "success"

\* C5: every job of a batch run eventually reaches 'success' or 'failed',
\* whatever the outcomes of the other jobs.
C5_EveryJobSettles ==
  \A i \in 1..RunJobs :
    (runPc # "idle" /\ bulkJobs[i].status \in {"queued", "running"})
      ~> (bulkJobs[i].status \in Terminal)

\* A job has failed, its worker has pulled the next job, a sibling waits.
C5_Witness ==
  /\ runPc = "await"
  /\ workerCount = 1
  /\ failedCount >= 2 /\ successCount >= 1
  /\ CountStatus(bulkJobs, "running") = 1
  /\ CountStatus(bulkJobs, "queued") >= 1

(***************************************************************************)
(* Properties of the CSV parse.                                            *)
(***************************************************************************)
\* handleParseBulkCsv has run: it leaves jobs or an error.
Parsed == bulkJobs # << >> \/ bulkCsvError # NoCsvError

\* The body rows parseBulkCsv reports no error for.
ValidRowNumbers(rows) ==
  {k \in 1..Len(rows) : \A e \in Range(parseBulkCsv(rows).errors) : e.row # k + 1}

InvalidSourceType(row) == ToLowerCase(row.sourceType) \notin ValidSourceTypes

\* C6: after parsing, every valid row of the input is a queued job of the
\* batch even when other rows are rejected; for 3 rows of which only row 2 is
\* rejected, for its sourceType, the batch holds exactly 2 queued jobs and
\* exactly 1 validation error is reported.
C6_ValidRowsQueued ==
  Parsed =>
    /\ Len(bulkJobs) = Cardinality(ValidRowNumbers(bulkCsvText))
    /\ \A i \in 1..Len(bulkJobs) : bulkJobs[i].status = "queued"
    /\ (/\ Len(bulkCsvText) = 3
        /\ ValidRowNumbers(bulkCsvText) = {1, 3}
        /\ InvalidSourceType(bulkCsvText[2]))
         => Len(bulkJobs) = 2 /\ Len(bulkCsvError) = 1

(***************************************************************************)
(* Properties of the generate route.                                       *)
(***************************************************************************)
WasCalled(p, collaborator) == collaborator \in Range(p.calls)

\* C7: whenever the generator call succeeds and its text cannot be parsed
\* (no '{...}' object, or an object still invalid after repair), the request
\* ends with a success response built from the fallback record.
C7_MalformedRecovered ==
  (pipe.pc = "done" /\ WasCalled(pipe, "generate")
     /\ pipe.env.gen \in {"noJson", "unrepairable"})
    => /\ pipe.resp.status = 200
       /\ pipe.resp.error = Undefined
       /\ pipe.fallback
       /\ pipe.resp.title = FallbackTitle(pipe.req.projectId)

\* C8: whenever saving the generated record fails, the request ends with an
\* error response that carries the store's error text, never with a success.
C8_PersistFailureReported ==
  (pipe.pc = "done" /\ pipe.saveError # Undefined)
    => /\ pipe.resp.status >= 400
       /\ pipe.saveError \in {pipe.resp.error, pipe.resp.details}

\* The pdf source could not be read, or its text is empty or unreadable.
PdfExtractionFailed(p) ==
  /\ p.req.sourceType = "pdf"
  /\ \/ WasCalled(p, "load") /\ p.env.load # "buffer"
     \/ WasCalled(p, "extract") /\ p.env.extract # "text"

GeneratorFailed(p) == WasCalled(p, "generate") /\ p.env.gen = "throws"

CallIndex(p, collaborator) ==
  CHOOSE k \in 1..Len(p.calls) : p.calls[k] = collaborator

FatalStops ==
  /\ PdfExtractionFailed(pipe) =>
       /\ pipe.pc = "done"
       /\ pipe.resp.status = 422 /\ pipe.resp.error # Undefined
       /\ ~WasCalled(pipe, "generate") /\ ~WasCalled(pipe, "persist")
       /\ ~pipe.saved
  /\ GeneratorFailed(pipe) =>
       /\ pipe.pc = "done"
       /\ pipe.resp.status = 500 /\ pipe.resp.error # Undefined
       /\ ~WasCalled(pipe, "persist")
       /\ ~pipe.saved
  /\ WasCalled(pipe, "persist") =>
       /\ WasCalled(pipe, "generate") /\ pipe.env.gen # "throws"
       /\ CallIndex(pipe, "generate") < CallIndex(pipe, "persist")

\* C9: a pdf request whose source or text extraction failed, or whose text
\* is empty, and any request whose generator call fails, ends with an error
\* response; the generator is not called after an extraction failure; the
\* content store changes only in the persist step of a request whose
\* generator call has returned.
C9_FatalStopsBeforePersist ==
  /\ []FatalStops
  /\ [][store' # store =>
          /\ pipe.pc = "persist"
          /\ WasCalled(pipe, "generate") /\ pipe.env.gen # "throws"
          /\ ~PdfExtractionFailed(pipe)]_vars

\* An empty pdf text has been answered with 422 while the store holds a page
\* of an earlier request.
C9_Witness ==
  /\ pipe.pc = "done" /\ PdfExtractionFailed(pipe)
  /\ WasCalled(pipe, "extract") /\ pipe.env.extract = "empty"
  /\ pipe.resp.status = 422
  /\ DOMAIN store = {JobId(1)} /\ pipe.req.projectId = JobId(2)

(***************************************************************************)
(* Properties of the author rosters.                                       *)
(***************************************************************************)
NoTwoShareAKey(roster) ==
  \A i, j \in 1..Len(roster) :
    i # j => normalizeAuthorKey(roster[i].name) # normalizeAuthorKey(roster[j].name)

\* C10: for all rosters A and B, mergeAuthorSets(A, B, {allowNewNames: false})
\* is at least as long as A and holds no two entries whose names are equal
\* after trim, lowercase and whitespace collapse.
C10_MergeKeepsLengthAndKeys ==
  (authorCall.pc = "returned" /\ ~authorCall.allowNewNames)
    => /\ Len(authorCall.result) >= Len(authorCall.base)
       /\ NoTwoShareAKey(authorCall.result)

KeysOf(names) == {normalizeAuthorKey(names[i]) : i \in 1..Len(names)}

\* C11: mergeAuthorSets with allowNewNames false returns only entries whose
\* name key is a key of the base, whatever the incoming list holds; and when
\* the pdf name detection returned names, every entry of the final roster of
\* POST has the key of a detected name, whatever the manual and the
\* generator-returned authors are.
C11_NoNewNames ==
  /\ (authorCall.pc = "returned" /\ ~authorCall.allowNewNames)
       => KeysOf(NamesOf(authorCall.result)) \subseteq KeysOf(NamesOf(authorCall.base))
  /\ (authorCall.pc = "rosterReturned" /\ authorCall.sourceType = "pdf"
        /\ authorCall.detected # << >>)
       => KeysOf(NamesOf(authorCall.result.finalAuthors)) \subseteq KeysOf(authorCall.detected)

\* A merge with allowNewNames false returned, and the incoming list named
\* somebody the base, not empty, does not hold.
C11_Witness ==
  /\ authorCall.pc = "returned" /\ ~authorCall.allowNewNames
  /\ authorCall.base # << >>
  /\ \E i \in 1..Len(authorCall.incoming) :
       normalizeAuthorKey(authorCall.incoming[i].name) \notin KeysOf(NamesOf(authorCall.base))

\* The roster a merge call holds: its base before it returns, its result after.
Current(call) == IF call.pc = "called" THEN call.base ELSE call.result

OptionalFields == {"url", "affiliation", "equalContribution"}

IsSet(field, value) ==
  IF field = "equalContribution" THEN IsBoolean(value) ELSE value \notin {Undefined, ""}

\* The incoming candidates that match base entry i: they have its key, and
\* i is the entry the key is indexed at.
MatchesOf(call, i) ==
  {j \in 1..Len(call.incoming) :
     /\ normalizeAuthorKey(call.incoming[j].name) = normalizeAuthorKey(call.base[i].name)
     /\ \A k \in (i + 1)..Len(call.base) :
          normalizeAuthorKey(call.base[k].name) # normalizeAuthorKey(call.base[i].name)}

\* What an unset field of base entry i becomes: the value of the first match
\* that has it set, and unset if there is none.
Filled(call, result, i, field) ==
  LET setters == {j \in MatchesOf(call, i) : IsSet(field, call.incoming[j][field])}
  IN  IF setters = {} THEN ~IsSet(field, result[i][field])
      ELSE result[i][field] =
             call.incoming[CHOOSE j \in setters : \A k \in setters : j <= k][field]

IsMergeCall(call) == call.pc \in {"called", "returned"}

\* C12: when a merge returns, every base entry is still at its place with
\* its name, each of url, affiliation and equalContribution that was set on
\* it keeps the base value, and each that was unset holds the value of the
\* first matching incoming candidate that has it set; and along a chain of
\* merges (the next takes the result as its base) no name and no set field
\* of a roster entry ever changes.
C12_SetFieldsKept ==
  [][(IsMergeCall(authorCall) /\ IsMergeCall(authorCall'))
       => LET before == Current(authorCall)
              after == Current(authorCall')
          IN  /\ Len(after) >= Len(before)
              /\ \A i \in 1..Len(before) :
                   /\ after[i].name = before[i].name
                   /\ \A field \in OptionalFields :
                        IF IsSet(field, before[i][field])
                          THEN after[i][field] = before[i][field]
                          ELSE authorCall'.pc = "returned"
                                 => Filled(authorCall, after, i, field)]_vars

\* The second merge of a chain returned: entry 1 had its url from the start
\* and its affiliation from the first merge, and the second merge's incoming
\* list holds a match that carries another affiliation.
C12_Witness ==
  /\ authorCall.pc = "returned" /\ authorCall.step = 2
  /\ authorCall.origin # << >>
  /\ IsSet("url", authorCall.origin[1].url)
  /\ ~IsSet("affiliation", authorCall.origin[1].affiliation)
  /\ IsSet("affiliation", authorCall.base[1].affiliation)
  /\ authorCall.base[1].url = authorCall.origin[1].url
  /\ \E j \in MatchesOf(authorCall, 1) :
       /\ IsSet("affiliation", authorCall.incoming[j].affiliation)
       /\ authorCall.incoming[j].affiliation # authorCall.base[1].affiliation

\* The backfill applies: equal nonzero lengths, an affiliation in the enrichment.
BackfillApplies(base, enrichment) ==
  /\ Len(base) = Len(enrichment) /\ Len(base) > 0
  /\ \E i \in 1..Len(enrichment) : IsSet("affiliation", enrichment[i].affiliation)

\* C13: applyAffiliationByPosition returns the base unchanged unless both
\* rosters have the same nonzero length and the enrichment carries an
\* affiliation; then entry i is the base entry i, with the enrichment's
\* affiliation i when the base entry had none and the enrichment's entry has
\* one.  base [A, B] with enrichment [X of MIT, Y of CMU] gives
\* [A of MIT, B of CMU].
C13_PositionalBackfill ==
  authorCall.pc = "backfillReturned"
    => LET base == authorCall.base
           enrichment == authorCall.enrichment
           result == authorCall.result
       IN  /\ ~BackfillApplies(base, enrichment) => result = base
           /\ BackfillApplies(base, enrichment)
                => /\ Len(result) = Len(base)
                   /\ \A i \in 1..Len(base) :
                        IF ~IsSet("affiliation", base[i].affiliation)
                             /\ IsSet("affiliation", enrichment[i].affiliation)
                          THEN result[i] = Affiliated(base[i].name, enrichment[i].affiliation)
                          ELSE result[i] = base[i]
           /\ (/\ base = <<Affiliated(<<"A">>, Undefined), Affiliated(<<"B">>, Undefined)>>
               /\ enrichment = <<Affiliated(<<"X">>, "MIT"), Affiliated(<<"Y">>, "CMU")>>)
                => result = <<Affiliated(<<"A">>, "MIT"), Affiliated(<<"B">>, "CMU")>>

\* The backfill returned for two rosters of length 2: one base entry had an
\* affiliation and one had none, and the enrichment has one for both.
C13_Witness ==
  /\ authorCall.pc = "backfillReturned"
  /\ Len(authorCall.base) = 2 /\ Len(authorCall.enrichment) = 2
  /\ ~IsSet("affiliation", authorCall.base[1].affiliation)
  /\ IsSet("affiliation", authorCall.base[2].affiliation)
  /\ \A i \in 1..2 : IsSet("affiliation", authorCall.enrichment[i].affiliation)

\* Every entry of roster is the entry of base at its place, enriched: the
\* same name, and every field that was set on the base entry unchanged.
EnrichmentOf(roster, base) ==
  /\ Len(roster) = Len(base)
  /\ \A i \in 1..Len(base) :
       /\ roster[i].name = base[i].name
       /\ \A field \in OptionalFields :
            IsSet(field, base[i][field]) => roster[i][field] = base[i][field]

\* C14: the base of the final roster is the detected names when the source
\* is a pdf and the detection is not empty, and the manual authors
\* otherwise; the roster enriched by the manual and then the generator's
\* authors holds exactly the base's entries, enriched; the final roster is
\* that roster when it is not empty, else the generator's list when that is
\* not empty, else the single placeholder author; it is never empty.
C14_PrecedenceChain ==
  authorCall.pc = "rosterReturned"
    => LET r == authorCall.result
           detectionUsed == authorCall.sourceType = "pdf" /\ authorCall.detected # << >>
       IN  /\ detectionUsed
                => r.base = [i \in 1..Len(authorCall.detected) |->
                               Author(authorCall.detected[i], Undefined, Undefined, Undefined)]
           /\ ~detectionUsed => r.base = r.fallbackManualAuthors
           /\ EnrichmentOf(r.enrichedWithGenerated, r.base)
           /\ r.base # << >> => r.finalAuthors = r.enrichedWithGenerated
           /\ (r.base = << >> /\ r.generatedAuthors # << >>)
                => r.finalAuthors = r.generatedAuthors
           /\ (r.base = << >> /\ r.generatedAuthors = << >>)
                => r.finalAuthors = << PlaceholderAuthor >>
           /\ Len(r.finalAuthors) > 0

\* The roster returned for a pdf whose detection found nobody and a request
\* without manual authors: the generator's own two authors are the roster.
C14_Witness ==
  /\ authorCall.pc = "rosterReturned"
  /\ authorCall.sourceType = "pdf" /\ authorCall.detected = << >>
  /\ authorCall.result.fallbackManualAuthors = << >>
  /\ Len(authorCall.result.generatedAuthors) = 2
  /\ authorCall.result.finalAuthors = authorCall.result.generatedAuthors

\* C15: the final roster of POST never holds two entries whose names are
\* equal after trim, lowercase and whitespace collapse, whatever the
\* detected names, the manual names text, the manual author objects and the
\* generator-returned authors are.
C15_FinalRosterDistinctKeys ==
  authorCall.pc = "rosterReturned" => NoTwoShareAKey(authorCall.result.finalAuthors)

\* C16: mergeAuthorSets(A, []) is A with each name trimmed, the entries
\* otherwise unchanged and in the same order, and merging that result with
\* [] again returns it unchanged.
C16_MergeWithNothing ==
  (authorCall.pc = "returned" /\ authorCall.incoming = << >>)
    => /\ authorCall.result =
            [i \in 1..Len(authorCall.base) |->
               [authorCall.base[i] EXCEPT !.name = Trim(@)]]
       /\ mergeAuthorSets(authorCall.result, << >>, authorCall.allowNewNames)
            = authorCall.result

(***************************************************************************)
(* Properties of the batch commands and of the displayed counts.           *)
(***************************************************************************)
\* Job i of the batch waits in the queue, is held by a worker, or is finished.
PlacesOf(i) ==
  Cardinality(QueuePlaces(bulkJobs[i].projectId))
    + Cardinality(Holders(bulkJobs[i].projectId))
    + (IF bulkJobs[i].status \in Terminal THEN 1 ELSE 0)

\* C17: the step that starts a 'run all' puts every job of the batch,
\* whatever its status was, in the run and in the queue, and sets it to
\* 'queued' with message and generatedTitle undefined while no worker has
\* started; during the run every job of the batch is in exactly one place
\* (queue, one worker, finished), moves only queued -> running -> finished,
\* and when the run ends every job is finished and the summary counts them all.
C17_RunAllRunsEveryJob ==
  [][/\ (runPc = "idle" /\ runPc' = "spawn" /\ ~failedOnly') =>
          /\ Len(bulkJobs') = Len(bulkJobs)
          /\ \A i \in 1..Len(bulkJobs) :
               bulkJobs'[i] = [bulkJobs[i] EXCEPT !.status = "queued",
                                                  !.message = Undefined,
                                                  !.generatedTitle = Undefined]
          /\ Len(queue') = Len(bulkJobs)
          /\ \A i \in 1..Len(bulkJobs) : queue'[i].projectId = bulkJobs[i].projectId
          /\ \A w \in Workers : wpc'[w] = "off"
     /\ (runPc # "idle" /\ ~failedOnly) =>
          /\ \A i \in 1..Len(bulkJobs) : PlacesOf(i) = 1
          /\ Len(bulkJobs') = Len(bulkJobs)
          /\ \A i \in 1..Len(bulkJobs) :
               /\ bulkJobs[i].status = "queued" => bulkJobs'[i].status \in {"queued", "running"}
               /\ bulkJobs[i].status = "running" => bulkJobs'[i].status \in {"running"} \cup Terminal
               /\ bulkJobs[i].status \in Terminal => bulkJobs'[i] = bulkJobs[i]
     /\ (runPc = "await" /\ runPc' = "idle" /\ ~failedOnly) =>
          /\ \A i \in 1..Len(bulkJobs') : bulkJobs'[i].status \in Terminal
          /\ bulkSummary' = << [total |-> Len(bulkJobs),
                                success |-> CountStatus(bulkJobs, "success"),
                                failed |-> CountStatus(bulkJobs, "failed")] >>
    ]_vars

\* A 'run all' of a batch of three jobs has ended: every job is finished,
\* some succeeded and some failed, and the summary counts all three (the
\* state in which the next 'run all' requeues finished jobs).
C17_Witness ==
  /\ runPc = "idle" /\ Rendered /\ ~RunAllDisabled
  /\ Len(bulkJobs) = 3
  /\ bulkSummary # NoSummary /\ bulkSummary[1].total = 3
  /\ bulkSummary[1].success >= 1 /\ bulkSummary[1].failed >= 1
  /\ \A i \in 1..3 : bulkJobs[i].status \in Terminal /\ bulkJobs[i].message # Undefined

\* The message of the error resolveBulkSourceUrl throws at line 1411.
SourceRequired == "pdf source url or pdfFileName required"

\* C18: the projectIds of the batch are pairwise distinct, and a row that
\* lacks its required source never becomes a job, so no job of the batch is
\* ever 'failed' for lacking its source: such a row is reported in the
\* batch's error list only.
C18_InvalidRowsNeverJobs ==
  /\ \A i, j \in 1..Len(bulkJobs) :
       i # j => bulkJobs[i].projectId # bulkJobs[j].projectId
  /\ \A i \in 1..Len(bulkJobs) :
       ~(bulkJobs[i].status = "failed" /\ bulkJobs[i].message = SourceRequired)

\* The jobs of the batch that are in the current run and have status st.
RunCount(st) ==
  Cardinality({i \in 1..Len(bulkJobs) :
                 bulkJobs[i].projectId \in Ids(jobsToRun) /\ bulkJobs[i].status = st})

C20_ResolutionOrder ==
  /\ \A k \in 1..Len(pipe.attempts) : pipe.attempts[k].kind = "local" <=> k = 1
  /\ \A k \in 1..Len(pipe.attempts) :
       pipe.attempts[k].kind = "githubApi"
         => /\ parseGitHubFileUrl(pipe.sourceUrl)
            /\ \E j \in 1..(k - 1) :
                 /\ pipe.attempts[j].kind = "direct"
                 /\ pipe.attempts[j].outcome = "notOk"

(***************************************************************************)
(* Properties of the failures and of the content store.                    *)
(***************************************************************************)
\* The message of the error loadPdfBufferFromSource throws at line 371 when
\* the download answers with a status that is not ok.
DownloadFailed == "pdf download failed: 404 Not Found"

\* C21: when reading the source of a pdf request fails with an error, the
\* request ends with an error response, and that response carries the
\* message of the failure itself.
C21_SourceFailureVerbatim ==
  (pipe.pc = "done" /\ WasCalled(pipe, "load") /\ pipe.env.load = "throws")
    => /\ pipe.resp.status >= 400
       /\ DownloadFailed \in {pipe.resp.error, pipe.resp.details}

\* The step in which a request leaves its persist step.
PersistStep == pipe.pc = "persist" /\ pipe'.pc = "done"

\* C22 as stated: after a request has left its persist step, the record the
\* store holds for its projectId is the record of that request.
C22_LatestPersistStepKept ==
  [][(PersistStep /\ pipe.req.projectId \in DOMAIN store')
       => store'[pipe.req.projectId] = Document(pipe')]_vars

\* C22: the store holds one record per projectId; a request whose write
\* succeeds replaces the record of its projectId by its own and leaves every
\* other record as it is; a request whose write fails, and every step that
\* is not a persist step, leaves the store unchanged.  So the record of a
\* projectId is the one of the latest request for it whose write succeeded.
C22_LatestWriteKept ==
  [][IF PersistStep /\ pipe'.saved
       THEN /\ DOMAIN store' = DOMAIN store \cup {pipe.req.projectId}
            /\ store'[pipe.req.projectId] = Document(pipe')
            /\ \A id \in DOMAIN store \ {pipe.req.projectId} : store'[id] = store[id]
       ELSE store' = store]_vars

\* A request for p1 has been saved over a record of p1 while the record of
\* p2 is still in the store: the store holds the page of this request.
C22_Witness ==
  /\ pipe.pc = "done" /\ pipe.saved /\ pipe.req.projectId = JobId(1)
  /\ DOMAIN store = {JobId(1), JobId(2)}
  /\ store[JobId(1)] = Document(pipe)
  /\ store[JobId(1)] # store[JobId(2)]

(***************************************************************************)
(* The author detector of the pdf text (route.ts 573-792).  A text is the  *)
(* sequence of its lines and a line is a sequence of characters.  The      *)
(* lines of the model are written in letters, digits, spaces and the       *)
(* characters , ; : . - ' @ & * so the patterns of the source that need a  *)
(* Hangul syllable, a bracket, a bullet or a slash match nowhere.          *)
(***************************************************************************)
IsUpper(c) == \E i \in DOMAIN UpperLetters : UpperLetters[i] = c

IsLower(c) == \E i \in DOMAIN LowerLetters : LowerLetters[i] = c

IsLetter(c) == IsUpper(c) \/ IsLower(c)

\* \d
IsDigit(c) == c \in {"0", "1", "2", "3", "4", "5", "6", "7", "8", "9"}

\* \w
IsWordChar(c) == IsLetter(c) \/ IsDigit(c) \/ c = "_"

\* The character at a position, nothing outside the text.
CharAt(text, i) == IF i \in 1..Len(text) THEN text[i] ELSE ""

\* \b between the positions n and n + 1
WordBoundary(text, n) == IsWordChar(CharAt(text, n)) # IsWordChar(CharAt(text, n + 1))

\* /^word/i
StartsWithIgnoringCase(text, word) ==
  Len(text) >= Len(word) /\ NameToLowerCase(SubSeq(text, 1, Len(word))) = word

\* /^word\b/i
StartsWithWord(text, word) ==
  StartsWithIgnoringCase(text, word) /\ WordBoundary(text, Len(word))

\* /\bword\b/i
ContainsWord(text, word) ==
  \E i \in 1..(Len(text) - Len(word) + 1) :
    /\ LowerChar(text[i]) = word[1]
    /\ NameToLowerCase(SubSeq(text, i, i + Len(word) - 1)) = word
    /\ WordBoundary(text, i - 1)
    /\ WordBoundary(text, i + Len(word) - 1)

AUTHOR_NOISE_PATTERNS ==
  {<<"a", "b", "s", "t", "r", "a", "c", "t">>, <<"i", "n", "t", "r", "o", "d", "u", "c", "t", "i", "o", "n">>, <<"k", "e", "y", "w", "o", "r", "d">>, <<"k", "e", "y", "w", "o", "r", "d", "s">>, <<"i", "n", "d", "e", "x", " ", "t", "e", "r", "m">>,
   <<"i", "n", "d", "e", "x", " ", "t", "e", "r", "m", "s">>, <<"u", "n", "i", "v", "e", "r", "s", "i", "t", "y">>, <<"i", "n", "s", "t", "i", "t", "u", "t", "e">>, <<"d", "e", "p", "a", "r", "t", "m", "e", "n", "t">>, <<"l", "a", "b", "o", "r", "a", "t", "o", "r", "y">>,
   <<"s", "c", "h", "o", "o", "l">>, <<"c", "o", "l", "l", "e", "g", "e">>, <<"c", "o", "n", "f", "e", "r", "e", "n", "c", "e">>, <<"j", "o", "u", "r", "n", "a", "l">>, <<"f", "i", "g", "u", "r", "e">>, <<"t", "a", "b", "l", "e">>,
   <<"a", "p", "p", "e", "n", "d", "i", "x">>, <<"c", "o", "p", "y", "r", "i", "g", "h", "t">>, <<"a", "r", "x", "i", "v">>, <<"d", "o", "i">>}

hasAuthorNoise(text) == \E word \in AUTHOR_NOISE_PATTERNS : ContainsWord(text, word)

\* /^(abstract)\b/i and /^(keywords?|key words?|index terms?)\b/i
SectionStopWords ==
  {<<"a", "b", "s", "t", "r", "a", "c", "t">>, <<"k", "e", "y", "w", "o", "r", "d">>, <<"k", "e", "y", "w", "o", "r", "d", "s">>, <<"k", "e", "y", " ", "w", "o", "r", "d">>, <<"k", "e", "y", " ", "w", "o", "r", "d", "s">>,
   <<"i", "n", "d", "e", "x", " ", "t", "e", "r", "m">>, <<"i", "n", "d", "e", "x", " ", "t", "e", "r", "m", "s">>}

\* /^1\s*[\.\)]?\s*(introduction)\b/i
IsNumberedIntroduction(line) ==
  /\ CharAt(line, 1) = "1"
  /\ LET afterOne == TrimStart(Tail(line))
         afterMark == IF CharAt(afterOne, 1) \in {".", ")"}
                        THEN TrimStart(Tail(afterOne)) ELSE afterOne
     IN  StartsWithWord(afterMark, <<"i", "n", "t", "r", "o", "d", "u", "c", "t", "i", "o", "n">>)

\* AUTHOR_SECTION_STOP_PATTERNS.some((pattern) => pattern.test(line))
IsSectionStop(line) ==
  \/ \E word \in SectionStopWords : StartsWithWord(line, word)
  \/ IsNumberedIntroduction(line)

\* AUTHOR_LINE_HARD_STOP_PATTERNS.some((pattern) => pattern.test(line.trim()))
IsHardStop(line) ==
  LET text == Trim(line)
  IN  \/ \E word \in {<<"f", "i", "g", "u", "r", "e">>, <<"f", "i", "g">>, <<"t", "a", "b", "l", "e">>, <<"a", "p", "p", "e", "n", "d", "i", "x">>, <<"c", "o", "p", "y", "r", "i", "g", "h", "t">>} :
           StartsWithWord(text, word)
      \/ StartsWithIgnoringCase(text, <<"f", "i", "g", ".">>) /\ WordBoundary(text, 4)
      \/ StartsWithIgnoringCase(text, <<"h", "t", "t", "p", ":", "/", "/">>)
      \/ StartsWithIgnoringCase(text, <<"h", "t", "t", "p", "s", ":", "/", "/">>)

\* The position where the word that holds position i starts, and where it
\* ends.
WordStart(text, i) == Greatest({j \in 1..i : j = 1 \/ IsSpace(text[j - 1])})

WordEnd(text, i) == Least({j \in i..Len(text) : j = Len(text) \/ IsSpace(text[j + 1])})

\* The words of a text: what its spaces separate.
Words(text) ==
  LET starts == {i \in DOMAIN text : ~IsSpace(text[i]) /\ (i = 1 \/ IsSpace(text[i - 1]))}
      ends == {i \in DOMAIN text :
                 ~IsSpace(text[i]) /\ (i = Len(text) \/ IsSpace(text[i + 1]))}
  IN  SubSeq([k \in 1..Cardinality(starts) |->
                SubSeq(text, NthOf(starts, k), NthOf(ends, k))],
             1, Cardinality(starts))

\* /\S+@\S+/ in one word
HasEmail(word) == \E i \in 2..(Len(word) - 1) : word[i] = "@"

\* The character at position i is replaced by a space: it is of a word that
\* holds a mail address (/\S+@\S+/g), or of the digits that end a word
\* (/\d+(?=\s|$)/g).
IsSanitized(text, i) ==
  /\ ~IsSpace(text[i])
  /\ \/ HasEmail(SubSeq(text, WordStart(text, i), WordEnd(text, i)))
     \/ \A k \in i..WordEnd(text, i) : IsDigit(text[k])

\* sanitizedLine: mail addresses and closing digits replaced by a space,
\* whitespace collapsed, trimmed.
SanitizeLine(line) ==
  Trim(CollapseWhitespace([i \in DOMAIN line |->
                             IF IsSanitized(line, i) THEN " " ELSE line[i]]))

\* replace(/^(?:authors?|author|by)\s*[:\-]?\s*/i, '').trim()
StripAuthorPrefix_Keep(text) == Trim(text)

StripAuthorPrefix(text) ==
  LET n == IF StartsWithIgnoringCase(text, <<"a", "u", "t", "h", "o", "r", "s">>) THEN 7
           ELSE IF StartsWithIgnoringCase(text, <<"a", "u", "t", "h", "o", "r">>) THEN 6
           ELSE IF StartsWithIgnoringCase(text, <<"b", "y">>) THEN 2
           ELSE 0
      afterWord == TrimStart(SubSeq(text, n + 1, Len(text)))
      afterMark == IF CharAt(afterWord, 1) \in {":", "-"}
                     THEN TrimStart(Tail(afterWord)) ELSE afterWord
  IN  IF n = 0 THEN Trim(text) ELSE Trim(afterMark)

\* The first position at or after i that holds no space.
RECURSIVE SkipSpaces(_, _)
SkipSpaces(text, i) == IF IsSpace(CharAt(text, i)) THEN SkipSpaces(text, i + 1) ELSE i

\* /\s*(?:,|;| and | & |\/)\s*/i at position i: the position after the
\* separator that starts at i, or 0 when none starts there.
SeparatorAt(text, i) ==
  LET j == SkipSpaces(text, i)
  IN  IF CharAt(text, j) \in {",", ";", "/"} THEN SkipSpaces(text, j + 1)
      ELSE IF i + 4 <= Len(text) /\ NameToLowerCase(SubSeq(text, i, i + 4)) = <<" ", "a", "n", "d", " ">>
        THEN SkipSpaces(text, i + 5)
      ELSE IF i + 2 <= Len(text) /\ SubSeq(text, i, i + 2) = <<" ", "&", " ">>
        THEN SkipSpaces(text, i + 3)
      ELSE 0

\* The positions at or after `from` where a separator starts.
SeparatorsFrom(text, from) == {i \in from..Len(text) : SeparatorAt(text, i) > 0}

\* withoutPrefix.split(/\s*(?:,|;| and | & |\/)\s*/i): one part for each
\* separator found from the left, and the rest.
RECURSIVE SplitNamesFrom(_, _, _)
SplitNamesFrom(text, from, parts) ==
  IF SeparatorsFrom(text, from) = {} THEN Append(parts, SubSeq(text, from, Len(text)))
  ELSE LET at == Least(SeparatorsFrom(text, from))
       IN  SplitNamesFrom(text, SeparatorAt(text, at),
                          Append(parts, SubSeq(text, from, at - 1)))

SplitNames(text) == SplitNamesFrom(text, 1, << >>)

IsEdgeMark(c) == c \in {",", ";", ":", ".", "-"}

RECURSIVE StripLeadingMarks(_)
StripLeadingMarks(text) ==
  IF text # << >> /\ IsEdgeMark(Head(text)) THEN StripLeadingMarks(Tail(text)) ELSE text

RECURSIVE StripTrailingMarks(_)
StripTrailingMarks(text) ==
  IF text # << >> /\ IsEdgeMark(text[Len(text)])
    THEN StripTrailingMarks(SubSeq(text, 1, Len(text) - 1))
    ELSE text

\* normalizeAuthorToken: the mark * becomes a space, whitespace is collapsed
\* and trimmed, then the marks , ; : . - at both ends are removed.
normalizeAuthorToken(token) ==
  LET starless == [i \in 1..Len(token) |-> IF token[i] = "*" THEN " " ELSE token[i]]
  IN  StripTrailingMarks(StripLeadingMarks(Trim(CollapseWhitespace(starless))))

\* The end of the run of characters of a class that starts at position i
\* (i - 1 when the character at i is not of the class).
RECURSIVE LowerRunEnd(_, _)
LowerRunEnd(text, i) == IF IsLower(CharAt(text, i)) THEN LowerRunEnd(text, i + 1) ELSE i - 1

RECURSIVE LetterRunEnd(_, _)
LetterRunEnd(text, i) == IF IsLetter(CharAt(text, i)) THEN LetterRunEnd(text, i + 1) ELSE i - 1

\* (?:[-'][A-Za-z]+)* after position e: the position of its last character.
RECURSIVE JoinedPartsEnd(_, _)
JoinedPartsEnd(text, e) ==
  IF CharAt(text, e + 1) \in {"-", "'"} /\ IsLetter(CharAt(text, e + 2))
    THEN JoinedPartsEnd(text, LetterRunEnd(text, e + 2))
    ELSE e

\* [A-Z][a-z]+(?:[-'][A-Za-z]+)* at position i: the position of the last
\* character of the match, 0 when there is none.
CapitalizedEnd(text, i) ==
  IF IsUpper(CharAt(text, i)) /\ IsLower(CharAt(text, i + 1))
    THEN JoinedPartsEnd(text, LowerRunEnd(text, i + 1))
    ELSE 0

\* (?:[A-Z]\.){1,3} at position i: the position of the last character of
\* the match, 0 when there is none.
InitialsEnd(text, i) ==
  LET one(k) == IsUpper(CharAt(text, k)) /\ CharAt(text, k + 1) = "."
  IN  IF ~one(i) THEN 0
      ELSE IF ~one(i + 2) THEN i + 1
      ELSE IF ~one(i + 4) THEN i + 3
      ELSE i + 5

NameParticles ==
  <<<<"d", "e">>, <<"d", "a">>, <<"d", "e", "l">>, <<"v", "a", "n">>, <<"v", "o", "n">>, <<"d", "e", "r">>, <<"d", "e", "n">>, <<"d", "i">>, <<"l", "a">>, <<"l", "e">>,
    <<"b", "i", "n">>, <<"a", "l">>>>

\* /^(?:de|da|del|van|von|der|den|di|la|le|bin|al)$/i
IsParticle(word) == \E k \in DOMAIN NameParticles : NameToLowerCase(word) = NameParticles[k]

isLikelyEnglishAuthorName(name) ==
  LET words == Words(name)
      IsNameWord(word) ==
        \/ InitialsEnd(word, 1) = Len(word)
        \/ CapitalizedEnd(word, 1) = Len(word)
        \/ /\ IsUpper(CharAt(word, 1))
           /\ \/ Len(word) = 2 /\ word[2] = "."
              \/ Len(word) = 3 /\ IsLower(word[2]) /\ word[3] = "."
      nameWordCount == Cardinality({k \in DOMAIN words : IsNameWord(words[k])})
  IN  /\ Len(words) >= 2 /\ Len(words) <= 5
      /\ \A k \in DOMAIN words : IsNameWord(words[k]) \/ IsParticle(words[k])
      /\ nameWordCount >= 2

\* /\d|@|https?:\/\//i
HasDigitMailOrUrl(text) ==
  \E i \in DOMAIN text :
    \/ IsDigit(text[i])
    \/ text[i] = "@"
    \/ StartsWithIgnoringCase(SubSeq(text, i, Len(text)), <<"h", "t", "t", "p", ":", "/", "/">>)
    \/ StartsWithIgnoringCase(SubSeq(text, i, Len(text)), <<"h", "t", "t", "p", "s", ":", "/", "/">>)

isLikelyAuthorName(name) ==
  LET normalized == normalizeAuthorToken(name)
  IN  /\ normalized # << >>
      /\ Len(normalized) >= 2 /\ Len(normalized) <= 60
      /\ ~HasDigitMailOrUrl(normalized)
      /\ ~hasAuthorNoise(normalized)
      /\ \E i \in DOMAIN normalized : IsLetter(normalized[i])
      /\ isLikelyEnglishAuthorName(normalized)

\* A first word of the name pattern at position i: the position of its last
\* character, 0 when there is none.
\* a|b of a pattern: the end of the first alternative that matches.
FirstMatch(end, otherwise) == IF end > 0 THEN end ELSE otherwise

FirstNameWordEnd(text, i) == FirstMatch(CapitalizedEnd(text, i), InitialsEnd(text, i))

\* A following word of the name pattern at position i, a particle in small
\* letters included, the alternatives tried in the order of the pattern.
ParticleEnd(text, i) ==
  LET fits == {k \in DOMAIN NameParticles :
                 SubSeq(text, i, Min(Len(text), i + Len(NameParticles[k]) - 1))
                   = NameParticles[k]}
  IN  IF fits = {} THEN 0
      ELSE i + Len(NameParticles[CHOOSE k \in fits : \A other \in fits : k <= other]) - 1

NextNameWordEnd(text, i) == FirstMatch(FirstNameWordEnd(text, i), ParticleEnd(text, i))

\* (?:\s+ word){1,4} after position e with `left` repetitions left: the
\* position of the last character matched.
RECURSIVE FollowingWordsEnd(_, _, _)
FollowingWordsFrom(text, e, left, next) ==
  IF next > 0 THEN FollowingWordsEnd(text, next, left - 1) ELSE e

FollowingWordsEnd(text, e, left) ==
  IF left > 0 /\ SkipSpaces(text, e + 1) > e + 1
    THEN FollowingWordsFrom(text, e, left, NextNameWordEnd(text, SkipSpaces(text, e + 1)))
    ELSE e

\* The match of the name pattern that starts at position i: the position of
\* its last character, 0 when none starts there.
NameEnd(first, last) == IF first = 0 \/ last = first THEN 0 ELSE last

NameMatchEnd(text, i) ==
  NameEnd(FirstNameWordEnd(text, i), FollowingWordsEnd(text, FirstNameWordEnd(text, i), 4))

\* withoutPrefix.match(/.../g) ?? []: the matches found from the left, none
\* overlapping the one before.
NameStarts(text, from) == {i \in from..Len(text) : NameMatchEnd(text, i) > 0}

RECURSIVE NameMatchesFrom(_, _, _)
NameMatchesAfter(text, at, last, matches) ==
  NameMatchesFrom(text, last + 1, Append(matches, SubSeq(text, at, last)))

NameMatchesNext(text, at, matches) ==
  NameMatchesAfter(text, at, NameMatchEnd(text, at), matches)

NameMatchesFrom(text, from, matches) ==
  IF NameStarts(text, from) = {} THEN matches
  ELSE NameMatchesNext(text, Least(NameStarts(text, from)), matches)

NameMatches(text) == NameMatchesFrom(text, 1, << >>)

\* .map(normalizeAuthorToken).filter(Boolean)
NormalizedParts(parts) ==
  LET IsKept(token) == token # << >>
  IN  SelectSeq([k \in DOMAIN parts |-> normalizeAuthorToken(parts[k])], IsKept)

\* parts.filter(isLikelyAuthorName)
LikelyNames_All(parts) == parts

LikelyNames(parts) == SelectSeq(parts, isLikelyAuthorName)

\* const parts = split.length <= 1 ? (withoutPrefix.match(...) ?? []) : split
NameParts(withoutPrefix, split) ==
  IF Len(split) <= 1 THEN NameMatches(withoutPrefix) ELSE split

NamesOfSanitized(sanitizedLine, withoutPrefix) ==
  IF sanitizedLine = << >> \/ Len(sanitizedLine) > 240 \/ withoutPrefix = << >>
    THEN << >>
    ELSE uniqueNonEmpty(LikelyNames(NameParts(withoutPrefix,
                                              NormalizedParts(SplitNames(withoutPrefix)))))

extractAuthorNamesFromLine(line) ==
  IF line = << >> \/ IsHardStop(line) THEN << >>
  ELSE NamesOfSanitized(SanitizeLine(line), StripAuthorPrefix(SanitizeLine(line)))

\* /^(?:authors?|author|by)\b/i
HasAuthorPrefix(line) == \E word \in {<<"a", "u", "t", "h", "o", "r", "s">>, <<"a", "u", "t", "h", "o", "r">>, <<"b", "y">>} : StartsWithWord(line, word)

\* /\S+@\S+/
LineHasEmail(line) == \E k \in DOMAIN Words(line) : HasEmail(Words(line)[k])

\* lineIndex counts from 0 as in the source.
scoreAuthorLine(line, names, lineIndex) ==
  Len(names) * 3
    + (IF HasAuthorPrefix(line) THEN 7 ELSE 0)
    + (IF lineIndex <= 8 THEN 2 ELSE 0)
    + (IF Len(line) <= 110 THEN 1 ELSE 0)
    - (IF hasAuthorNoise(line) /\ ~HasAuthorPrefix(line) THEN 3 ELSE 0)
    - (IF LineHasEmail(line) THEN 1 ELSE 0)

Candidate(names, score, index) == [names |-> names, score |-> score, index |-> index]

\* The lines of the text: whitespace collapsed, trimmed, the empty ones
\* dropped.  The texts of the model are shorter than the 12000 characters
\* the source reads.
CleanLines(pdfText) ==
  LET IsKept(line) == line # << >>
  IN  SelectSeq([k \in DOMAIN pdfText |-> Trim(CollapseWhitespace(pdfText[k]))], IsKept)

\* lines.findIndex(...): counted from 0, -1 when no line is a boundary.
StopIndex(lines) ==
  LET stops == {k \in DOMAIN lines : IsSectionStop(lines[k])}
  IN  IF stops = {} THEN -1
      ELSE (CHOOSE k \in stops : \A other \in stops : k <= other) - 1

\* lines.slice(0, stopIndex > 0 ? Math.min(stopIndex, 70) : Math.min(lines.length, 70))
HeaderLines(lines) ==
  SubSeq(lines, 1, IF StopIndex(lines) > 0 THEN Min(StopIndex(lines), 70)
                   ELSE Min(Len(lines), 70))

\* One round of the scan: the candidate of line i, then the candidate of
\* line i merged with the line after it.  i counts from 0.
CandidatesOfNames(i, names, score, mergedNames, mergedScore, mergeable) ==
  IF names = << >> THEN << >>
  ELSE IF mergeable /\ Len(mergedNames) > Len(names)
    THEN <<Candidate(names, score, i), Candidate(mergedNames, mergedScore, i)>>
  ELSE <<Candidate(names, score, i)>>

CandidatesOfLines(i, scanLimit, names, nextLine, nextNames, score) ==
  CandidatesOfNames(i, names, score,
                    uniqueNonEmpty(names \o nextNames),
                    score + scoreAuthorLine(nextLine, nextNames, i + 1) - 1,
                    i + 1 < scanLimit /\ nextNames # << >> /\ ~hasAuthorNoise(nextLine))

CandidatesOfPair(i, scanLimit, line, names, nextLine) ==
  CandidatesOfLines(i, scanLimit, names, nextLine,
                    IF i + 1 < scanLimit THEN extractAuthorNamesFromLine(nextLine) ELSE << >>,
                    scoreAuthorLine(line, names, i))

CandidatesOfLine(headerLines, i, scanLimit) ==
  CandidatesOfPair(i, scanLimit, headerLines[i + 1],
                   extractAuthorNamesFromLine(headerLines[i + 1]),
                   IF i + 1 < scanLimit THEN headerLines[i + 2] ELSE << >>)

\* The candidates of the lines lo..hi, in the order the loop pushes them.
RECURSIVE CandidatesBetween(_, _, _, _)
CandidatesBetween(headerLines, lo, hi, scanLimit) ==
  IF lo > hi THEN << >>
  ELSE IF lo = hi THEN CandidatesOfLine(headerLines, lo, scanLimit)
  ELSE CandidatesBetween(headerLines, lo, (lo + hi) \div 2, scanLimit)
         \o CandidatesBetween(headerLines, (lo + hi) \div 2 + 1, hi, scanLimit)

\* const scanLimit = Math.min(headerLines.length, 45)
Candidates(headerLines) ==
  CandidatesBetween(headerLines, 0, Min(Len(headerLines), 45) - 1, Min(Len(headerLines), 45))

\* The comparator of candidates.sort: a before b.
Before(a, b) ==
  \/ a.score > b.score
  \/ a.score = b.score /\ Len(a.names) > Len(b.names)
  \/ a.score = b.score /\ Len(a.names) = Len(b.names) /\ a.index < b.index

RECURSIVE SortCandidates(_)
SortCandidates(candidates) ==
  IF candidates = << >> THEN << >>
  ELSE LET first == CHOOSE k \in DOMAIN candidates :
                      \A other \in DOMAIN candidates :
                        other = k \/ ~Before(candidates[other], candidates[k])
           rest == SubSeq(candidates, 1, first - 1)
                     \o SubSeq(candidates, first + 1, Len(candidates))
       IN  <<candidates[first]>> \o SortCandidates(rest)

\* .slice(0, 12)
FirstTwelve_All(names) == names

FirstTwelve(names) == SubSeq(names, 1, Min(Len(names), 12))

\* The inner loop over the names of one candidate: the names not yet in
\* merged are pushed; full when merged has reached 12 names.
RECURSIVE AddNames(_, _)
AddNames(merged, names) ==
  IF names = << >> THEN [names |-> merged, full |-> FALSE]
  ELSE LET known == \E k \in DOMAIN merged :
                      NameToLowerCase(merged[k]) = NameToLowerCase(Head(names))
           pushed == IF known THEN merged ELSE Append(merged, Head(names))
       IN  IF Len(pushed) >= 12 THEN [names |-> pushed, full |-> TRUE]
           ELSE AddNames(pushed, Tail(names))

\* The loop over candidates.slice(1).
RECURSIVE MergeCandidates(_, _, _)
MergeCandidates(merged, candidates, bestScore) ==
  IF candidates = << >> \/ Head(candidates).score < bestScore - 3
    THEN FirstTwelve(uniqueNonEmpty(merged))
  ELSE LET added == AddNames(merged, Head(candidates).names)
       IN  IF added.full THEN added.names
           ELSE MergeCandidates(added.names, Tail(candidates), bestScore)

\* The sorted candidates of a text.
SortedCandidates(pdfText) == SortCandidates(Candidates(HeaderLines(CleanLines(pdfText))))

\* The names returned for the sorted candidates.
NamesOfCandidates(candidates) ==
  IF candidates = << >> THEN << >>
  ELSE IF Len(candidates[1].names) >= 2 THEN FirstTwelve(uniqueNonEmpty(candidates[1].names))
  ELSE MergeCandidates(candidates[1].names, Tail(candidates), candidates[1].score)

extractAuthorsFromPdfText(pdfText) == NamesOfCandidates(SortedCandidates(pdfText))

(***************************************************************************)
(* The detector applied to the text of a paper.                            *)
(***************************************************************************)
MaxLines == 3

ByLine == <<"A", "u", "t", "h", "o", "r", "s", ":", " ", "J", "a", "n", "e", " ", "D", "o", "e", ",", " ", "J", "o", "h", "n", " ", "S", "m", "i", "t", "h">>

\* The lines the short texts are made of.
PaperLines ==
  {ByLine,
   <<"A", "b", "s", "t", "r", "a", "c", "t">>,
   <<"1", ".", " ", "I", "n", "t", "r", "o", "d", "u", "c", "t", "i", "o", "n">>,
   <<" ", " ">>,
   <<"A", "u", "t", "h", "o", "r", ":", " ", "J", "a", "n", "e", " ", "V", "a", "n", " ", "D", "o", "e">>,
   <<"B", "y", " ", "J", "a", "n", "e", " ", "v", "a", "n", " ", "D", "o", "e">>,
   <<"J", "a", "n", "e", " ", "V", "a", "n", " ", "D", "o", "e", ",", " ", "M", "I", "T", " ", "U", "n", "i", "v", "e", "r", "s", "i", "t", "y", ",", " ", "-", " ", "-", "A", "l", " ", "B", "a", " ", "2">>}

\* A line of four names that scores low: it names a university and holds a
\* mail address.
CrowdedLine(c) ==
  <<"A", "l", " ", "B", c, "a", ",", " ", "A", "l", " ", "B", c, "b", ",", " ",
    "A", "l", " ", "B", c, "c", ",", " ", "A", "l", " ", "B", c, "d", ",", " ">>
    \o <<"M", "I", "T", " ", "U", "n", "i", "v", "e", "r", "s", "i", "t", "y", " ", "x", "@", "y", ".", "z">>

ThirteenNames ==
  <<"A", "l", " ", "B", "a", "-", "C", "d", ",", " ", "A", "l", " ", "B", "a", "-", "c", "d", ",", " ", "A", "l", " ", "B", "b", ",", " ", "A", "l", " ", "B", "c", ",", " ", "A", "l", " ", "B", "d", ",", " ", "A", "l", " ", "B", "e", ",", " ", "A", "l", " ", "B", "f", ",", " ", "A", "l", " ", "B", "g", ",", " ", "A", "l", " ", "B", "h", ",", " ", "A", "l", " ", "B", "i", ",", " ", "A", "l", " ", "B", "j", ",", " ", "A", "l", " ", "B", "k", ",", " ", "A", "l", " ", "B", "l", ",", " ", "A", "l", " ", "B", "m", ",", " ", "A", "l", " ", "B", "n">>

\* Texts longer than MaxLines lines, or of longer lines: thirteen names on
\* one line, thirteen names over four lines of which the best holds one,
\* and a by-line below the lines the scan reads.
LongPapers ==
  {<<ThirteenNames>>,
   <<<<"A", "u", "t", "h", "o", "r", ":", " ", "J", "a", "n", "e", " ", "D", "o", "e">>, CrowdedLine("a"), CrowdedLine("e"), CrowdedLine("i")>>,
   [i \in 1..46 |-> IF i = 46 THEN ByLine ELSE <<"A", " ", "S", "t", "u", "d", "y", " ", "o", "f", " ", "T", "h", "i", "n", "g", "s">>]}

DetectCall(pdfText) == [pc |-> "detectCalled", pdfText |-> pdfText, result |-> << >>]

InitDetect ==
  /\ InitPage /\ InitRun
  /\ pipe = IdlePipeline
  /\ store = [id \in {} |-> Undefined]
  /\ \E pdfText \in SeqsUpTo(PaperLines, MaxLines) \cup LongPapers :
       authorCall = DetectCall(pdfText)

ReturnDetected ==
  /\ authorCall.pc = "detectCalled"
  /\ authorCall' = [authorCall EXCEPT
                      !.pc = "detectReturned",
                      !.result = extractAuthorsFromPdfText(authorCall.pdfText)]
  /\ UNCHANGED <<batchVars, runVars, pipe, store>>

NextDetect == ReturnDetected

SpecDetect == InitDetect /\ [][NextDetect]_vars

(***************************************************************************)
(* Properties of the author detector.                                      *)
(***************************************************************************)
Detected == authorCall.pc = "detectReturned"

\* C23: for the header text "Authors: Jane Doe, John Smith" the detector
\* returns exactly the two names Jane Doe and John Smith, in that order.
C23_ByLineExample ==
  (Detected /\ authorCall.pdfText = <<ByLine>>)
    => authorCall.result = <<<<"J", "a", "n", "e", " ", "D", "o", "e">>, <<"J", "o", "h", "n", " ", "S", "m", "i", "t", "h">>>>

C23_Witness ==
  /\ Detected
  /\ authorCall.pdfText = <<ByLine>>
  /\ Len(authorCall.result) = 2

\* The names a line of the text gives.
NamesOfLine(line) == Range(extractAuthorNamesFromLine(line))

\* The names returned.
DetectedNameSet == Range(authorCall.result)

\* C24: every name the detector returns passes the name-acceptance test;
\* a text of which no header line gives an accepted name returns no name.
C24_OnlyAcceptedNames ==
  Detected =>
    /\ \A name \in DetectedNameSet : isLikelyAuthorName(name)
    /\ (\A line \in Range(HeaderLines(CleanLines(authorCall.pdfText))) :
          extractAuthorNamesFromLine(line) = << >>)
         => authorCall.result = << >>

\* A line that names two people and a university between them: the two
\* names are returned, the university is not.
C24_Witness ==
  /\ Detected
  /\ authorCall.pdfText = <<<<"J", "a", "n", "e", " ", "V", "a", "n", " ", "D", "o", "e", ",", " ", "M", "I", "T", " ", "U", "n", "i", "v", "e", "r", "s", "i", "t", "y", ",", " ", "-", " ", "-", "A", "l", " ", "B", "a", " ", "2">>>>
  /\ authorCall.result = <<<<"J", "a", "n", "e", " ", "V", "a", "n", " ", "D", "o", "e">>, <<"-", "A", "l", " ", "B", "a">>>>

\* C25: the detector returns at most 12 names, and no two of them are equal
\* when letter case is ignored, whichever of its two returns is taken.
C25_AtMostTwelveDistinct ==
  Detected =>
    /\ Len(authorCall.result) <= 12
    /\ \A i, j \in DOMAIN authorCall.result :
         i # j => NameToLowerCase(authorCall.result[i]) # NameToLowerCase(authorCall.result[j])

\* Thirteen names were found over four lines of which the best holds one
\* name: the return from inside the merge loop hands back twelve.
C25_Witness ==
  /\ Detected
  /\ Len(authorCall.pdfText) = 4
  /\ Len(SortedCandidates(authorCall.pdfText)[1].names) = 1
  /\ Len(authorCall.result) = 12

\* The position of the first boundary line among the lines of the text, one
\* past the last line when there is none.
FirstBoundary(lines) == IF StopIndex(lines) < 0 THEN Len(lines) + 1 ELSE StopIndex(lines) + 1

\* C26: detection stops at the first boundary line (Abstract, Introduction,
\* Keywords), wherever it stands, the first line included: every name
\* returned is a name of one of the first 70 lines before that line.
C26_NothingFromTheBoundaryOn ==
  Detected =>
    LET lines == CleanLines(authorCall.pdfText)
    IN  \A name \in DetectedNameSet :
          \E k \in 1..Min(70, FirstBoundary(lines) - 1) : name \in NamesOfLine(lines[k])

(***************************************************************************)
(* A second call of runBulkGeneration before the page has re-rendered.     *)
(* The handlers of a render close over the flags of that render; a call    *)
(* made from them after a run has started, and before React has committed *)
(* the new flag, reads isBulkRunning = false.  The model follows the page  *)
(* up to the start of the second run; what two interleaved runs then do to *)
(* the job list is not followed.                                           *)
(***************************************************************************)
\* runBulkGeneration(false) called from the handlers of the last render
\* while the first run awaits its workers: the guard reads the flags of the
\* closure, the functional update of setBulkJobs works on the current list.
CallBeforeRender ==
  /\ runPc = "await"
  /\ view # Flags
  /\ ~RunGuardReturns
  /\ bulkJobs' = Requeue(bulkJobs, Ids(JobsToRun(bulkJobs, FALSE)))
  /\ bulkCsvError' = NoCsvError
  /\ bulkSummary' = NoSummary
  /\ isBulkRunning' = TRUE
  /\ runPc' = "reentered"
  /\ UNCHANGED <<bulkCsvText, bulkPdfFiles, bulkConcurrency, isGenerating, view,
                 failedOnly, jobsToRun, queue, workerCount, successCount, failedCount,
                 wpc, wjob, wurl, wresp, serverVars>>

NextReentry ==
  \/ runPc # "reentered" /\ NextRunBatch
  \/ CallBeforeRender

SpecReentry == InitRunBatch /\ [][NextReentry]_vars

\* The step starts a run: it re-queues the jobs of the run and goes on to
\* create the workers.
StartsRun == runPc' # runPc /\ runPc' \in {"spawn", "reentered"}

\* C27: at most one batch run is active at a time: while a run or a single
\* generation is in progress no call of runBulkGeneration starts a run, a
\* call made before the page has re-rendered with the new flag included.
C27_NoRunStartsWhileBusy ==
  [][(isBulkRunning \/ isGenerating) => ~StartsRun]_vars

(***************************************************************************)
(* Properties of the fields of a job, of the end of a run, and of the      *)
(* duplicate check of the parse.                                           *)
(***************************************************************************)
\* C28: a queued job has neither a message nor a generatedTitle, a running
\* job has no generatedTitle, and a job has a generatedTitle only when its
\* status is 'success'.
C28_FieldsFitStatus ==
  \A i \in 1..Len(bulkJobs) :
    /\ bulkJobs[i].status = "queued" =>
         bulkJobs[i].message = Undefined /\ bulkJobs[i].generatedTitle = Undefined
    /\ bulkJobs[i].status = "running" => bulkJobs[i].generatedTitle = Undefined
    /\ bulkJobs[i].generatedTitle # Undefined => bulkJobs[i].status = "success"

\* During a run one job has succeeded and has its title, another is running
\* and has its progress message, a third waits in the queue.
C28_Witness ==
  /\ runPc = "await"
  /\ \E i, j, k \in 1..Len(bulkJobs) :
       /\ bulkJobs[i].status = "success" /\ bulkJobs[i].generatedTitle # Undefined
       /\ bulkJobs[j].status = "running" /\ bulkJobs[j].message # Undefined
       /\ bulkJobs[k].status = "queued"

\* The jobs of the list that are of the run and have the status st.
RunJobsWith(jobs, st) ==
  {i \in 1..Len(jobs) : jobs[i].projectId \in Ids(jobsToRun) /\ jobs[i].status = st}

\* C29: the step that ends a run resets the running flag and sets a summary
\* whose total is the number of jobs of the run, whose success and failed
\* numbers are the numbers of those jobs that ended as success and as
\* failed, and add up to the total.
C29_SummaryOfFinishedRun ==
  [][(runPc = "await" /\ runPc' = "idle") =>
       /\ ~isBulkRunning'
       /\ bulkSummary' # NoSummary
       /\ bulkSummary'[1].total = Cardinality(Ids(jobsToRun))
       /\ bulkSummary'[1].success + bulkSummary'[1].failed = bulkSummary'[1].total
       /\ bulkSummary'[1].success = Cardinality(RunJobsWith(bulkJobs', "success"))
       /\ bulkSummary'[1].failed = Cardinality(RunJobsWith(bulkJobs', "failed"))]_vars

\* A retry of the failed jobs of a batch has ended: its summary counts fewer
\* jobs than the batch holds.
C29_Witness ==
  /\ runPc = "idle" /\ ~isBulkRunning
  /\ bulkSummary # NoSummary
  /\ bulkSummary[1].total >= 2 /\ bulkSummary[1].total < Len(bulkJobs)
  /\ bulkSummary[1].success >= 1 /\ bulkSummary[1].failed >= 1

\* C30: parseBulkCsv reports a row as a duplicate only when an earlier row
\* with the same projectId was accepted as a job; a row that was itself
\* rejected does not make a later row with its projectId a duplicate.
C30_DuplicateOfAcceptedRowOnly ==
  Parsed =>
    \A k \in 1..Len(bulkCsvError) :
      bulkCsvError[k].kind = "duplicate" =>
        \E j \in ValidRowNumbers(bulkCsvText) :
          /\ j + 1 < bulkCsvError[k].row
          /\ bulkCsvText[j].projectId = bulkCsvText[bulkCsvError[k].row - 1].projectId

====
